---- MODULE Spec2Model ----
(***************************************************************************)
(* Solve synchronisation and announcement state machine of the CryptoHack  *)
(* Discord bot: the four SQLite relations of database.py, the background   *)
(* poller and deliverer of bot.py, and the slash commands that write to    *)
(* the store (/adduser, /removeuser, /refresh, /setchannel).               *)
(*                                                                         *)
(* Every "await" of the source is a point where another coroutine may run, *)
(* so every database call (one SQL statement in its own connection, hence  *)
(* atomic) is one action.  Awaits that touch no modelled shared state      *)
(* (asyncio.sleep, image rendering, the profile fetch that only reads the  *)
(* score) are folded into the neighbouring action.                         *)
(***************************************************************************)
EXTENDS Integers, Sequences, FiniteSets, TLC

(***************************************************************************)
(* Bounds of the model.                                                    *)
(***************************************************************************)
MaxOps == 4        \* operations started: upstream solves, poll runs, commands
MaxAborts == 1     \* store failures injected in SpecFault

Guilds == {1, 2}
Accounts == {"alice", "Bob"}             \* accounts that exist upstream
Names == {"alice", "Bob", "bob"}         \* what an operator may type
Challenges == {"RSA", "AES"}
Channels == {11, 12, 13}

NoChannel == 0
NoGuild == 0
NoUser == ""

\* str.lower() on the names of the model
Lower(s) == IF s = "Bob" THEN "bob" ELSE s

\* static attributes of a challenge as the upstream API reports them
Category(c) == IF c = "RSA" THEN "rsa" ELSE "aes"
Points(c) == IF c = "RSA" THEN 10 ELSE 20

\* static attributes of the Discord channels of the model
ChannelGuild(ch) == IF ch = 12 THEN 2 ELSE 1
ChannelName(ch) == IF ch = 11 THEN "general" ELSE "cryptohack"

VARIABLES
    upstream,            \* account -> its solved_challenges as the API lists them
    today,               \* date stamped on the next upstream solve
    joined,              \* guilds the bot is a member of (get_guild finds them)
    liveChannels,        \* channels that exist and that the bot can fetch
    system_channel,      \* guild -> its system channel, or NoChannel
    tracked_users,       \* table tracked_users, in rowid order
    solved_challenges,   \* table solved_challenges, in rowid order
    guild_first_bloods,  \* table guild_first_bloods, in rowid order
    guild_settings,      \* table guild_settings: guild -> channel id / NoChannel
    poll,                \* the background task check_new_solves
    refr,                \* a running /refresh command
    trk,                 \* a running /adduser command
    ops,                 \* how many operations have been started
    aborts,              \* how many store failures have been injected
    sent,                \* log of notification dispatches (channel.send calls)
    arb,                 \* per (guild, challenge): was first blood asked for, and wins
    creator,             \* per solved_challenges row, in rowid order: who inserted it
    marks,               \* (guild, user, challenge, why) of every mark_challenge_announced
    lastDone,            \* per (guild, user): snapshot of the last completed poll step
    orphan               \* (guild, user, challenge) whose step died after a won claim

vars == <<upstream, today, joined, liveChannels, system_channel, tracked_users,
          solved_challenges, guild_first_bloods, guild_settings, poll, refr, trk,
          ops, aborts, sent, arb, creator, marks, lastDone, orphan>>

store == <<tracked_users, solved_challenges, guild_first_bloods, guild_settings>>
world == <<upstream, today, joined, liveChannels, system_channel>>

(***************************************************************************)
(* Sequence helpers.                                                       *)
(***************************************************************************)
Range(s) == {s[i] : i \in 1..Len(s)}

RECURSIVE InsertDesc(_, _)
\* x put into s, which is sorted by solved_date descending; x goes after its equals
InsertDesc(s, x) ==
    IF s = <<>> THEN <<x>>
    ELSE IF x.solved_date > Head(s).solved_date THEN <<x>> \o s
    ELSE <<Head(s)>> \o InsertDesc(Tail(s), x)

RECURSIVE SortDesc(_)
\* ORDER BY solved_date DESC; rows of equal date stay in rowid order
SortDesc(s) ==
    IF s = <<>> THEN <<>>
    ELSE InsertDesc(SortDesc(SubSeq(s, 1, Len(s) - 1)), s[Len(s)])

RECURSIVE InsertAsc(_, _)
\* x put into s, which is sorted by solved_date ascending; x goes after its equals
InsertAsc(s, x) ==
    IF s = <<>> THEN <<x>>
    ELSE IF x.solved_date < Head(s).solved_date THEN <<x>> \o s
    ELSE <<Head(s)>> \o InsertAsc(Tail(s), x)

RECURSIVE SortAsc(_)
\* ORDER BY solved_date ASC; rows of equal date stay in rowid order
SortAsc(s) ==
    IF s = <<>> THEN <<>>
    ELSE InsertAsc(SortAsc(SubSeq(s, 1, Len(s) - 1)), s[Len(s)])

(***************************************************************************)
(* database.py: each function is one SQL statement on the tables.  A       *)
(* function that writes returns [rows |-> the table afterwards, ok |-> its *)
(* return value].                                                          *)
(***************************************************************************)

\* add_user that stores and compares the name as typed, without username.lower()
add_user_case_sensitive(t, guild_id, username) ==
    LET row == [guild_id |-> guild_id, cryptohack_username |-> username]
    IN  IF \E i \in 1..Len(t) : t[i] = row
        THEN [rows |-> t, ok |-> FALSE]
        ELSE [rows |-> Append(t, row), ok |-> TRUE]

\* INSERT INTO tracked_users, UNIQUE(guild_id, cryptohack_username)
add_user(t, guild_id, username) ==
    LET row == [guild_id |-> guild_id, cryptohack_username |-> Lower(username)]
    IN  IF \E i \in 1..Len(t) : t[i] = row
        THEN [rows |-> t, ok |-> FALSE]
        ELSE [rows |-> Append(t, row), ok |-> TRUE]

\* DELETE FROM tracked_users WHERE guild_id = ? AND cryptohack_username = ?
remove_user(t, guild_id, username) ==
    LET row == [guild_id |-> guild_id, cryptohack_username |-> Lower(username)]
    IN  [rows |-> SelectSeq(t, LAMBDA r : r # row),
         ok |-> \E i \in 1..Len(t) : t[i] = row]

\* SELECT cryptohack_username FROM tracked_users WHERE guild_id = ?
get_tracked_users(t, guild_id) ==
    LET mine == SelectSeq(t, LAMBDA r : r.guild_id = guild_id)
    IN  [i \in 1..Len(mine) |-> mine[i].cryptohack_username]

RECURSIVE Distinct(_, _)
Distinct(s, seen) ==
    IF s = <<>> THEN <<>>
    ELSE IF Head(s) \in seen THEN Distinct(Tail(s), seen)
    ELSE <<Head(s)>> \o Distinct(Tail(s), seen \cup {Head(s)})

\* SELECT DISTINCT guild_id FROM tracked_users
get_guild_ids(t) == Distinct([i \in 1..Len(t) |-> t[i].guild_id], {})

\* SELECT challenge_name FROM solved_challenges WHERE guild_id = ? AND username = ?
get_solved_challenges(t, guild_id, username) ==
    {t[i].challenge_name : i \in {j \in 1..Len(t) :
        t[j].guild_id = guild_id /\ t[j].cryptohack_username = Lower(username)}}

\* the row add_solved_challenge inserts; announced takes its DEFAULT FALSE
SolveRow(guild_id, username, challenge, first_blood) ==
    [guild_id |-> guild_id, cryptohack_username |-> Lower(username),
     challenge_name |-> challenge.name, challenge_category |-> challenge.category,
     challenge_points |-> challenge.points, solved_date |-> challenge.date,
     first_blood |-> first_blood, announced |-> FALSE]

SameSolve(r, guild_id, username, name) ==
    /\ r.guild_id = guild_id
    /\ r.cryptohack_username = Lower(username)
    /\ r.challenge_name = name

\* add_solved_challenge on a table without its UNIQUE constraint
add_solved_challenge_no_unique(t, guild_id, username, challenge, first_blood) ==
    [rows |-> Append(t, SolveRow(guild_id, username, challenge, first_blood)),
     ok |-> TRUE]

\* add_solved_challenge written as INSERT OR REPLACE: the old row goes, the new one
\* takes its place with announced back at its default
add_solved_challenge_replace(t, guild_id, username, challenge, first_blood) ==
    [rows |-> [i \in 1..Len(t) |->
                  IF SameSolve(t[i], guild_id, username, challenge.name)
                  THEN SolveRow(guild_id, username, challenge, first_blood)
                  ELSE t[i]]
              \o (IF \E i \in 1..Len(t) : SameSolve(t[i], guild_id, username, challenge.name)
                  THEN <<>>
                  ELSE <<SolveRow(guild_id, username, challenge, first_blood)>>),
     ok |-> TRUE]

\* add_solved_challenge written as an upsert: ON CONFLICT DO UPDATE SET first_blood
add_solved_challenge_upsert(t, guild_id, username, challenge, first_blood) ==
    IF \E i \in 1..Len(t) : SameSolve(t[i], guild_id, username, challenge.name)
    THEN [rows |-> [i \in 1..Len(t) |->
                      IF SameSolve(t[i], guild_id, username, challenge.name)
                      THEN [t[i] EXCEPT !.first_blood = first_blood]
                      ELSE t[i]],
          ok |-> FALSE]
    ELSE [rows |-> Append(t, SolveRow(guild_id, username, challenge, first_blood)),
          ok |-> TRUE]

\* INSERT INTO solved_challenges, UNIQUE(guild_id, cryptohack_username, challenge_name);
\* an IntegrityError is caught and reported as False
add_solved_challenge(t, guild_id, username, challenge, first_blood) ==
    IF \E i \in 1..Len(t) : SameSolve(t[i], guild_id, username, challenge.name)
    THEN [rows |-> t, ok |-> FALSE]
    ELSE [rows |-> Append(t, SolveRow(guild_id, username, challenge, first_blood)),
          ok |-> TRUE]

\* UPDATE solved_challenges SET announced = TRUE WHERE guild, username, challenge
mark_challenge_announced(t, guild_id, username, name) ==
    [i \in 1..Len(t) |->
        IF SameSolve(t[i], guild_id, username, name)
        THEN [t[i] EXCEPT !.announced = TRUE]
        ELSE t[i]]

\* get_unannounced_solves that hands out the newest unannounced row only (LIMIT 1)
get_unannounced_solves_limit_one(t, guild_id) ==
    LET all == SortDesc(SelectSeq(t, LAMBDA r : r.guild_id = guild_id /\ ~r.announced))
    IN  IF all = <<>> THEN <<>> ELSE <<Head(all)>>

\* SELECT ... WHERE guild_id = ? AND announced = FALSE ORDER BY solved_date DESC
get_unannounced_solves(t, guild_id) ==
    SortDesc(SelectSeq(t, LAMBDA r : r.guild_id = guild_id /\ ~r.announced))

\* check_and_set_first_blood with the claimant in the UNIQUE constraint
check_and_set_first_blood_per_user(t, guild_id, name, username) ==
    LET row == [guild_id |-> guild_id, challenge_name |-> name,
                first_solver_username |-> Lower(username)]
    IN  IF \E i \in 1..Len(t) : t[i] = row
        THEN [rows |-> t, ok |-> FALSE]
        ELSE [rows |-> Append(t, row), ok |-> TRUE]

\* check_and_set_first_blood that answers True again to the holder of the claim
check_and_set_first_blood_reentrant(t, guild_id, name, username) ==
    LET row == [guild_id |-> guild_id, challenge_name |-> name,
                first_solver_username |-> Lower(username)]
    IN  IF \E i \in 1..Len(t) : t[i].guild_id = guild_id /\ t[i].challenge_name = name
        THEN [rows |-> t, ok |-> \E i \in 1..Len(t) : t[i] = row]
        ELSE [rows |-> Append(t, row), ok |-> TRUE]

\* check_and_set_first_blood written as INSERT OR REPLACE: the last caller wins
check_and_set_first_blood_replace(t, guild_id, name, username) ==
    LET row == [guild_id |-> guild_id, challenge_name |-> name,
                first_solver_username |-> Lower(username)]
    IN  [rows |-> SelectSeq(t, LAMBDA r : ~(r.guild_id = guild_id /\ r.challenge_name = name))
                  \o <<row>>,
         ok |-> TRUE]

\* check_and_set_first_blood with UNIQUE(challenge_name) alone: one first blood
\* per challenge for all the guilds
check_and_set_first_blood_any_guild(t, guild_id, name, username) ==
    IF \E i \in 1..Len(t) : t[i].challenge_name = name
    THEN [rows |-> t, ok |-> FALSE]
    ELSE [rows |-> Append(t, [guild_id |-> guild_id, challenge_name |-> name,
                              first_solver_username |-> Lower(username)]),
          ok |-> TRUE]

\* INSERT INTO guild_first_bloods, UNIQUE(guild_id, challenge_name);
\* an IntegrityError is caught and reported as False
check_and_set_first_blood(t, guild_id, name, username) ==
    IF \E i \in 1..Len(t) : t[i].guild_id = guild_id /\ t[i].challenge_name = name
    THEN [rows |-> t, ok |-> FALSE]
    ELSE [rows |-> Append(t, [guild_id |-> guild_id, challenge_name |-> name,
                              first_solver_username |-> Lower(username)]),
          ok |-> TRUE]

\* get_challenge_solvers with ORDER BY sc.solved_date DESC
get_challenge_solvers_newest_first(t, tu, guild_id, name) ==
    SortDesc(SelectSeq(t, LAMBDA r :
        /\ r.guild_id = guild_id
        /\ r.challenge_name = name
        /\ \E i \in 1..Len(tu) :
              /\ tu[i].guild_id = r.guild_id
              /\ tu[i].cryptohack_username = r.cryptohack_username))

\* SELECT ... FROM solved_challenges sc JOIN tracked_users tu ON guild and username
\* WHERE sc.guild_id = ? AND sc.challenge_name = ? ORDER BY sc.solved_date ASC
get_challenge_solvers(t, tu, guild_id, name) ==
    SortAsc(SelectSeq(t, LAMBDA r :
        /\ r.guild_id = guild_id
        /\ r.challenge_name = name
        /\ \E i \in 1..Len(tu) :
              /\ tu[i].guild_id = r.guild_id
              /\ tu[i].cryptohack_username = r.cryptohack_username))

\* INSERT INTO guild_settings ... ON CONFLICT(guild_id) DO UPDATE
set_announcement_channel(t, guild_id, channel_id) ==
    [t EXCEPT ![guild_id] = channel_id]

\* SELECT announcement_channel_id FROM guild_settings WHERE guild_id = ?
get_announcement_channel(t, guild_id) == t[guild_id]

(***************************************************************************)
(* External collaborators.                                                 *)
(***************************************************************************)

\* cryptohack_api.fetch_user on success: the account's canonical name and its
\* solved_challenges.  The upstream lookup is taken to ignore case.
FetchUser(name) ==
    {[username |-> a, solved_challenges |-> upstream[a]] :
        a \in {b \in Accounts : Lower(b) = Lower(name)}}

\* one entry of the API's solved_challenges.  The date is a string upstream and a
\* TEXT column in the store; the model numbers the dates in the order in which
\* SQLite's comparison of that column puts them
Challenge(c, d) == [name |-> c, category |-> Category(c), points |-> Points(c), date |-> d]

\* the loop of lines 97-98 leaving after its first new entry
DiffFirstOnly(existing_solves, snapshot) ==
    LET new == SelectSeq(snapshot, LAMBDA challenge : challenge.name \notin existing_solves)
    IN  IF new = <<>> THEN <<>> ELSE <<Head(new)>>

\* Diff without the test of line 98: the whole snapshot is taken as new
DiffKeepsRecorded(existing_solves, snapshot) == snapshot

\* lines 97-98 of bot.py: the entries of the snapshot whose name is not recorded
Diff(existing_solves, snapshot) ==
    SelectSeq(snapshot, LAMBDA challenge : challenge.name \notin existing_solves)

\* discord.utils.get(guild.text_channels, name="cryptohack")
NamedChannel(g) ==
    LET found == {ch \in liveChannels : ChannelGuild(ch) = g /\ ChannelName(ch) = "cryptohack"}
    IN  IF found = {} THEN NoChannel ELSE CHOOSE ch \in found : \A o \in found : ch <= o

\* what "channel" may be after lines 124-128: fetch_channel answers or raises, and
\* when it raises the guild's own cache is asked
ConfiguredChannel(g, channel_id) ==
    IF channel_id = NoChannel THEN {NoChannel}
    ELSE (IF channel_id \in liveChannels THEN {channel_id} ELSE {})
         \cup {IF channel_id \in liveChannels /\ ChannelGuild(channel_id) = g
               THEN channel_id ELSE NoChannel}

\* ResolveChannel that looks for #cryptohack before the configured channel
ResolveChannelNamedFirst(g, channel) ==
    IF NamedChannel(g) # NoChannel THEN NamedChannel(g)
    ELSE IF channel # NoChannel THEN channel
    ELSE system_channel[g]

\* lines 130-134: the fallbacks when no configured channel was found
ResolveChannel(g, channel) ==
    IF channel # NoChannel THEN channel
    ELSE IF NamedChannel(g) # NoChannel THEN NamedChannel(g)
    ELSE system_channel[g]

Outcomes == {"sent", "forbidden", "error"}

\* one channel.send(file=...) call, as logged in sent
Dispatch(by, solve, channel, rank, outcome) ==
    [by |-> by, guild_id |-> solve.guild_id, username |-> solve.cryptohack_username,
     challenge_name |-> solve.challenge_name, first_blood |-> solve.first_blood,
     channel |-> channel, rank |-> rank, outcome |-> outcome]

(***************************************************************************)
(* Initial state: empty tables, nothing running.  The fields unannounced,  *)
(* tried, attempted and failed of poll are not in the source: they keep    *)
(* what the run has done so far (the whole list read at line 116, the      *)
(* channel.send calls of the current list, whether the solve at hand got   *)
(* as far as channel.send, whether a per-account step of the run failed).  *)
(***************************************************************************)
PollIdle ==
    [pc |-> "idle", guild_ids |-> <<>>, guild |-> NoGuild, users |-> <<>>,
     username |-> NoUser, snap |-> <<>>, todo |-> <<>>, fb |-> FALSE,
     rerun |-> FALSE, made |-> 0, batch |-> <<>>, channel |-> NoChannel, rank |-> 0,
     unannounced |-> <<>>, tried |-> <<>>, attempted |-> FALSE, failed |-> FALSE]

RefreshIdle ==
    [pc |-> "idle", guild |-> NoGuild, users |-> <<>>, username |-> NoUser,
     snap |-> <<>>, todo |-> <<>>, fb |-> FALSE, new_solves_data |-> <<>>,
     channel |-> NoChannel, rank |-> 0]

TrackIdle ==
    [pc |-> "idle", guild |-> NoGuild, username |-> NoUser, todo |-> <<>>, fb |-> FALSE,
     created |-> FALSE, began |-> 0]

InitStore ==
    /\ tracked_users = <<[guild_id |-> 1, cryptohack_username |-> "alice"]>>
    /\ solved_challenges = <<>>
    /\ guild_first_bloods = <<>>
    /\ guild_settings = [g \in Guilds |-> NoChannel]

InitRest ==
    /\ upstream = [a \in Accounts |-> <<>>]
    /\ today = 0
    /\ poll = PollIdle
    /\ refr = RefreshIdle
    /\ trk = TrackIdle
    /\ ops = 0
    /\ aborts = 0
    /\ sent = <<>>
    /\ arb = [k \in Guilds \X Challenges |-> [called |-> FALSE, wins |-> 0]]
    /\ lastDone = [k \in Guilds \X {Lower(a) : a \in Accounts} |-> -1]
    /\ orphan = {}
    /\ creator = <<>>
    /\ marks = {}

\* the bot is a member of guild 1, whose only channel is #general
Init ==
    /\ InitStore
    /\ InitRest
    /\ joined = {1}
    /\ liveChannels = {11}
    /\ system_channel = [g \in Guilds |-> NoChannel]

\* history of mark_challenge_announced: one more call, and why it was made
Marked(guild_id, username, name, why) ==
    marks \cup {<<guild_id, Lower(username), name, why>>}

\* history of the first-blood arbiter: a call was made, and one more win when ok
Arbitrated(g, name, ok) ==
    [arb EXCEPT ![<<g, name>>] =
        [called |-> TRUE, wins |-> @.wins + (IF ok THEN 1 ELSE 0)]]

(***************************************************************************)
(* The upstream service: an account solves one more challenge.  The two    *)
(* challenges are interchangeable, so the first one anybody solves is      *)
(* called "RSA".                                                           *)
(***************************************************************************)
Solved(c) == \E a \in Accounts : \E i \in 1..Len(upstream[a]) : upstream[a][i].name = c

UpstreamSolve(a, c, d) ==
    /\ ops < MaxOps
    /\ c = "AES" => Solved("RSA")
    /\ \A i \in 1..Len(upstream[a]) : upstream[a][i].name # c
    /\ d \in {today, today + 1} \ {0}
    /\ upstream' = [upstream EXCEPT ![a] = Append(@, Challenge(c, d))]
    /\ today' = d
    /\ ops' = ops + 1 /\ UNCHANGED aborts
    /\ UNCHANGED <<joined, liveChannels, system_channel, store, poll, refr, trk,
                   sent, arb, lastDone, creator, marks, orphan>>

(***************************************************************************)
(* bot.py: CryptoHackBot.check_new_solves, the background loop.            *)
(***************************************************************************)

\* line 60: guild_ids = await db.get_guild_ids()
PollStart ==
    /\ poll.pc = "idle"
    /\ ops < MaxOps
    /\ ops' = ops + 1 /\ UNCHANGED aborts
    /\ poll' = [PollIdle EXCEPT !.pc = "guild", !.guild_ids = get_guild_ids(tracked_users)]
    /\ UNCHANGED <<world, store, refr, trk, sent, arb, lastDone, creator, marks, orphan>>

\* PollGuild without the "if not guild: continue" of lines 63-66: a guild the bot
\* left is worked on like any other
PollGuildIgnoresMembership ==
    /\ poll.pc = "guild"
    /\ IF poll.guild_ids = <<>> THEN poll' = PollIdle
       ELSE LET g == Head(poll.guild_ids)
                us == get_tracked_users(tracked_users, g)
            IN  IF us = <<>>
                THEN poll' = [poll EXCEPT !.guild_ids = Tail(@), !.guild = g,
                                          !.pc = "announce"]
                ELSE poll' = [poll EXCEPT !.guild_ids = Tail(@), !.guild = g,
                                          !.users = us, !.username = Head(us),
                                          !.pc = "fetch"]
    /\ UNCHANGED <<world, store, refr, trk, ops, aborts, sent, arb, lastDone, creator, marks, orphan>>

\* lines 62-70: next guild of the run; a guild the bot left is skipped
PollGuild ==
    /\ poll.pc = "guild"
    /\ IF poll.guild_ids = <<>> THEN poll' = PollIdle
       ELSE LET g == Head(poll.guild_ids)
                us == get_tracked_users(tracked_users, g)
            IN  IF g \notin joined
                THEN poll' = [poll EXCEPT !.guild_ids = Tail(@)]
                ELSE IF us = <<>>
                THEN poll' = [poll EXCEPT !.guild_ids = Tail(@), !.guild = g,
                                          !.pc = "announce"]
                ELSE poll' = [poll EXCEPT !.guild_ids = Tail(@), !.guild = g,
                                          !.users = us, !.username = Head(us),
                                          !.pc = "fetch"]
    /\ UNCHANGED <<world, store, refr, trk, ops, aborts, sent, arb, lastDone, creator, marks, orphan>>

\* PollFetch with no handler for the API errors: a failed fetch ends the whole run
PollFetchUncaught ==
    /\ poll.pc = "fetch"
    /\ \/ \E user \in FetchUser(poll.username) :
             poll' = [poll EXCEPT !.pc = "existing", !.snap = user.solved_challenges]
       \/ poll' = PollIdle
    /\ UNCHANGED <<world, store, refr, trk, ops, aborts, sent, arb, lastDone, creator, marks, orphan>>

\* PollFetch that takes a failed fetch as the sign that the account is gone and
\* stops tracking it
PollFetchUntracksOnError ==
    /\ poll.pc = "fetch"
    /\ \/ /\ \E user \in FetchUser(poll.username) :
                poll' = [poll EXCEPT !.pc = "existing", !.snap = user.solved_challenges]
          /\ UNCHANGED tracked_users
       \/ /\ poll' = [poll EXCEPT !.pc = "sleep", !.failed = TRUE]
          /\ tracked_users' = remove_user(tracked_users, poll.guild, poll.username).rows
    /\ UNCHANGED <<world, solved_challenges, guild_first_bloods, guild_settings, refr, trk,
                   ops, aborts, sent, arb, lastDone, creator, marks, orphan>>

\* lines 88-93 of _check_user_solves: fetch_user, or return on an API error
PollFetch ==
    /\ poll.pc = "fetch"
    /\ \/ \E user \in FetchUser(poll.username) :
             poll' = [poll EXCEPT !.pc = "existing", !.snap = user.solved_challenges]
       \/ poll' = [poll EXCEPT !.pc = "sleep", !.failed = TRUE]
    /\ UNCHANGED <<world, store, refr, trk, ops, aborts, sent, arb, lastDone, creator, marks, orphan>>

\* the per-account step ran to its end on the snapshot it fetched
StepDone(g, username, snap) ==
    [lastDone EXCEPT ![<<g, username>>] = Len(snap)]

\* lines 95-98: existing_solves = await db.get_solved_challenges(...), then the diff
PollExisting ==
    /\ poll.pc = "existing"
    /\ LET existing_solves ==
               get_solved_challenges(solved_challenges, poll.guild, poll.username)
           todo == Diff(existing_solves, poll.snap)
           rerun == lastDone[<<poll.guild, poll.username>>] = Len(poll.snap)
       IN  IF todo = <<>>
           THEN /\ poll' = [poll EXCEPT !.pc = "sleep", !.rerun = rerun, !.made = 0]
                /\ lastDone' = StepDone(poll.guild, poll.username, poll.snap)
           ELSE /\ poll' = [poll EXCEPT !.pc = "claim", !.todo = todo,
                                        !.rerun = rerun, !.made = 0]
                /\ UNCHANGED lastDone
    /\ UNCHANGED <<world, store, refr, trk, ops, aborts, sent, arb, creator, marks, orphan>>

\* lines 100-102: is_first_blood = await db.check_and_set_first_blood(...)
PollClaim ==
    /\ poll.pc = "claim"
    /\ LET challenge == Head(poll.todo)
           r == check_and_set_first_blood(guild_first_bloods, poll.guild,
                                          challenge.name, poll.username)
       IN  /\ guild_first_bloods' = r.rows
           /\ arb' = Arbitrated(poll.guild, challenge.name, r.ok)
           /\ poll' = [poll EXCEPT !.pc = "record", !.fb = r.ok,
                                   !.made = @ + (IF r.ok THEN 1 ELSE 0)]
    /\ UNCHANGED <<world, tracked_users, solved_challenges, guild_settings, refr, trk,
                   ops, aborts, sent, lastDone, creator, marks, orphan>>

\* PollRecord that works out first_blood itself, from the absence of a row of the
\* guild for the challenge, instead of passing on what the claim answered
PollRecordRecomputes ==
    /\ poll.pc = "record"
    /\ LET challenge == Head(poll.todo)
           first == ~\E i \in 1..Len(solved_challenges) :
                       /\ solved_challenges[i].guild_id = poll.guild
                       /\ solved_challenges[i].challenge_name = challenge.name
           r == add_solved_challenge(solved_challenges, poll.guild, poll.username,
                                     challenge, first)
           made == poll.made + (IF r.ok THEN 1 ELSE 0)
       IN  /\ solved_challenges' = r.rows
           /\ creator' = IF r.ok THEN Append(creator, "poll") ELSE creator
           /\ IF Tail(poll.todo) = <<>>
              THEN /\ poll' = [poll EXCEPT !.pc = "sleep", !.todo = <<>>, !.fb = FALSE,
                                           !.made = made]
                   /\ lastDone' = StepDone(poll.guild, poll.username, poll.snap)
              ELSE /\ poll' = [poll EXCEPT !.pc = "claim", !.todo = Tail(@),
                                           !.fb = FALSE, !.made = made]
                   /\ UNCHANGED lastDone
    /\ UNCHANGED <<world, tracked_users, guild_first_bloods, guild_settings, refr, trk,
                   ops, aborts, sent, arb, marks, orphan>>

\* lines 104-112: await db.add_solved_challenge(..., first_blood=is_first_blood)
PollRecord ==
    /\ poll.pc = "record"
    /\ LET challenge == Head(poll.todo)
           r == add_solved_challenge(solved_challenges, poll.guild, poll.username,
                                     challenge, poll.fb)
           made == poll.made + (IF r.ok THEN 1 ELSE 0)
       IN  /\ solved_challenges' = r.rows
           /\ creator' = IF r.ok THEN Append(creator, "poll") ELSE creator
           /\ IF Tail(poll.todo) = <<>>
              THEN /\ poll' = [poll EXCEPT !.pc = "sleep", !.todo = <<>>, !.fb = FALSE,
                                           !.made = made]
                   /\ lastDone' = StepDone(poll.guild, poll.username, poll.snap)
              ELSE /\ poll' = [poll EXCEPT !.pc = "claim", !.todo = Tail(@),
                                           !.fb = FALSE, !.made = made]
                   /\ UNCHANGED lastDone
    /\ UNCHANGED <<world, tracked_users, guild_first_bloods, guild_settings, refr, trk,
                   ops, aborts, sent, arb, marks, orphan>>

\* PollSleep that calls _announce_new_solves inside the loop over the users,
\* after the first of them
PollSleepAnnouncesEarly ==
    /\ poll.pc = "sleep"
    /\ LET rest == Tail(poll.users)
           p == [poll EXCEPT !.users = rest, !.snap = <<>>, !.todo = <<>>,
                             !.rerun = FALSE, !.made = 0]
       IN  poll' = [p EXCEPT !.pc = "announce", !.username = NoUser]
    /\ UNCHANGED <<world, store, refr, trk, ops, aborts, sent, arb, lastDone, creator, marks, orphan>>

\* line 78: await asyncio.sleep(1), then the next tracked user or the announcements
PollSleep ==
    /\ poll.pc = "sleep"
    /\ LET rest == Tail(poll.users)
           p == [poll EXCEPT !.users = rest, !.snap = <<>>, !.todo = <<>>,
                             !.rerun = FALSE, !.made = 0]
       IN  IF rest = <<>>
           THEN poll' = [p EXCEPT !.pc = "announce", !.username = NoUser]
           ELSE poll' = [p EXCEPT !.pc = "fetch", !.username = Head(rest)]
    /\ UNCHANGED <<world, store, refr, trk, ops, aborts, sent, arb, lastDone, creator, marks, orphan>>

\* lines 116-118 of _announce_new_solves: the unannounced rows of the guild
PollUnannounced ==
    /\ poll.pc = "announce"
    /\ LET unannounced == get_unannounced_solves(solved_challenges, poll.guild)
       IN  IF unannounced = <<>>
           THEN poll' = [poll EXCEPT !.pc = "guild", !.guild = NoGuild]
           ELSE poll' = [poll EXCEPT !.pc = "channel", !.batch = unannounced,
                                     !.unannounced = unannounced]
    /\ UNCHANGED <<world, store, refr, trk, ops, aborts, sent, arb, lastDone, creator, marks, orphan>>

\* line 121: channel_id = await db.get_announcement_channel(guild.id)
PollChannel ==
    /\ poll.pc = "channel"
    /\ poll' = [poll EXCEPT !.pc = "resolve",
                            !.channel = get_announcement_channel(guild_settings, poll.guild)]
    /\ UNCHANGED <<world, store, refr, trk, ops, aborts, sent, arb, lastDone, creator, marks, orphan>>

\* lines 124-136: fetch_channel, the guild cache, #cryptohack, the system channel
PollResolve ==
    /\ poll.pc = "resolve"
    /\ \E configured \in ConfiguredChannel(poll.guild, poll.channel) :
          LET channel == ResolveChannel(poll.guild, configured)
          IN  poll' = [poll EXCEPT !.channel = channel,
                                   !.pc = IF channel = NoChannel THEN "markall"
                                          ELSE "prepare"]
    /\ UNCHANGED <<world, store, refr, trk, ops, aborts, sent, arb, lastDone, creator, marks, orphan>>

\* the loop over the batch: its next solve, or the guild is finished
PollBatchStep(rest, pc) ==
    IF rest = <<>>
    THEN [poll EXCEPT !.pc = "guild", !.guild = NoGuild, !.batch = <<>>,
                      !.channel = NoChannel, !.rank = 0, !.unannounced = <<>>,
                      !.tried = <<>>, !.attempted = FALSE]
    ELSE [poll EXCEPT !.pc = pc, !.batch = rest, !.rank = 0, !.attempted = FALSE]

\* PollMarkAll as a bare return: nothing is marked
PollMarkAllReturns ==
    /\ poll.pc = "markall"
    /\ poll' = PollBatchStep(<<>>, "markall")
    /\ UNCHANGED <<world, store, refr, trk, ops, aborts, sent, arb, creator, marks,
                   lastDone, orphan>>

\* lines 136-140: no channel at all, every unannounced solve is marked announced
PollMarkAll ==
    /\ poll.pc = "markall"
    /\ LET solve == Head(poll.batch)
       IN  solved_challenges' =
               mark_challenge_announced(solved_challenges, poll.guild,
                                        solve.cryptohack_username, solve.challenge_name)
    /\ marks' = Marked(poll.guild, Head(poll.batch).cryptohack_username,
                       Head(poll.batch).challenge_name, "nochannel")
    /\ poll' = PollBatchStep(Tail(poll.batch), "markall")
    /\ UNCHANGED <<world, tracked_users, guild_first_bloods, guild_settings, refr, trk,
                   ops, aborts, sent, arb, creator, lastDone, orphan>>

\* lines 146-163: fetch_user for the score, the server rank, the image; any of them
\* may raise, which lands in the handler of line 178
PollPrepare ==
    /\ poll.pc = "prepare"
    /\ LET solve == Head(poll.batch)
           server_solvers == get_challenge_solvers(solved_challenges, tracked_users,
                                                   poll.guild, solve.challenge_name)
       IN  \/ poll' = [poll EXCEPT !.pc = "send", !.rank = Len(server_solvers)]
           \/ poll' = [poll EXCEPT !.pc = "mark"]
    /\ UNCHANGED <<world, store, refr, trk, ops, aborts, sent, arb, lastDone, creator, marks, orphan>>

\* PollSend for a deliverer that marks a solve only when its send went through
PollSendMarksOnSuccess ==
    /\ poll.pc = "send"
    /\ \E outcome \in Outcomes :
          /\ sent' = Append(sent, Dispatch("poll", Head(poll.batch), poll.channel,
                                           poll.rank, outcome))
          /\ LET tried == Append(poll.tried,
                                 [solved_date |-> Head(poll.batch).solved_date,
                                  outcome |-> outcome])
             IN  poll' = IF outcome = "sent"
                         THEN [poll EXCEPT !.pc = "mark", !.attempted = TRUE,
                                           !.tried = tried]
                         ELSE [PollBatchStep(Tail(poll.batch), "prepare")
                                   EXCEPT !.tried = IF Tail(poll.batch) = <<>>
                                                    THEN <<>> ELSE tried]
    /\ UNCHANGED <<world, store, refr, trk, ops, aborts, arb, lastDone, creator, marks, orphan>>

\* PollSend with no handler around channel.send: a failure leaves the call for line 83
PollSendFailureEndsBatch ==
    /\ poll.pc = "send"
    /\ \E outcome \in Outcomes :
          /\ sent' = Append(sent, Dispatch("poll", Head(poll.batch), poll.channel,
                                           poll.rank, outcome))
          /\ poll' = IF outcome = "sent"
                     THEN [poll EXCEPT !.pc = "mark", !.attempted = TRUE,
                                       !.tried = Append(@, [solved_date |->
                                                                Head(poll.batch).solved_date,
                                                            outcome |-> outcome])]
                     ELSE PollBatchStep(<<>>, "prepare")
    /\ UNCHANGED <<world, store, refr, trk, ops, aborts, arb, lastDone, creator, marks, orphan>>

\* lines 166-167: await channel.send(file=file), which may raise
PollSend ==
    /\ poll.pc = "send"
    /\ \E outcome \in Outcomes :
          /\ sent' = Append(sent, Dispatch("poll", Head(poll.batch), poll.channel,
                                           poll.rank, outcome))
          /\ poll' = [poll EXCEPT !.pc = "mark", !.attempted = TRUE,
                                  !.tried = Append(@, [solved_date |->
                                                           Head(poll.batch).solved_date,
                                                       outcome |-> outcome])]
    /\ UNCHANGED <<world, store, refr, trk, ops, aborts, arb, lastDone, creator, marks, orphan>>

\* lines 169-183: mark_challenge_announced, after the send or in either handler
PollMark ==
    /\ poll.pc = "mark"
    /\ LET solve == Head(poll.batch)
       IN  solved_challenges' =
               mark_challenge_announced(solved_challenges, poll.guild,
                                        solve.cryptohack_username, solve.challenge_name)
    /\ marks' = Marked(poll.guild, Head(poll.batch).cryptohack_username,
                       Head(poll.batch).challenge_name,
                       IF poll.attempted THEN "dispatched" ELSE "unprepared")
    /\ poll' = PollBatchStep(Tail(poll.batch), "prepare")
    /\ UNCHANGED <<world, tracked_users, guild_first_bloods, guild_settings, refr, trk,
                   ops, aborts, sent, arb, creator, lastDone, orphan>>

Poller ==
    \/ PollStart \/ PollGuild \/ PollFetch \/ PollExisting \/ PollClaim \/ PollRecord
    \/ PollSleep \/ PollUnannounced \/ PollChannel \/ PollResolve \/ PollMarkAll
    \/ PollPrepare \/ PollSend \/ PollMark

(***************************************************************************)
(* bot.py: the /adduser command (add_user), with its seeding loop.         *)
(***************************************************************************)

\* lines 299-315: fetch_user(username).  An API error ends the command with a reply
\* and no effect, so only the successful fetch is a step.  began is not in the source:
\* it is the number of this operation when nothing else was running at its start
TrackStart(g, name) ==
    /\ trk.pc = "idle"
    /\ ops < MaxOps
    /\ g \in joined
    /\ \E user \in FetchUser(name) :
          trk' = [TrackIdle EXCEPT !.pc = "add", !.guild = g,
                                   !.username = user.username,
                                   !.todo = user.solved_challenges,
                                   !.began = IF poll.pc = "idle" /\ refr.pc = "idle"
                                             THEN ops + 1 ELSE -1]
    /\ ops' = ops + 1 /\ UNCHANGED aborts
    /\ UNCHANGED <<world, store, poll, refr, sent, arb, lastDone, creator, marks, orphan>>

\* lines 318-322 and 345: added = await db.add_user(interaction.guild_id, user.username)
TrackAdd ==
    /\ trk.pc = "add"
    /\ LET r == add_user(tracked_users, trk.guild, trk.username)
       IN  /\ tracked_users' = r.rows
           /\ trk' = IF r.ok /\ trk.todo # <<>> THEN [trk EXCEPT !.pc = "claim"]
                     ELSE TrackIdle
    /\ UNCHANGED <<world, solved_challenges, guild_first_bloods, guild_settings, poll,
                   refr, ops, aborts, sent, arb, lastDone, creator, marks, orphan>>

\* lines 323-325: is_first = await db.check_and_set_first_blood(...)
TrackClaim ==
    /\ trk.pc = "claim"
    /\ LET challenge == Head(trk.todo)
           r == check_and_set_first_blood(guild_first_bloods, trk.guild,
                                          challenge.name, trk.username)
       IN  /\ guild_first_bloods' = r.rows
           /\ arb' = Arbitrated(trk.guild, challenge.name, r.ok)
           /\ trk' = [trk EXCEPT !.pc = "record", !.fb = r.ok]
    /\ UNCHANGED <<world, tracked_users, solved_challenges, guild_settings, poll, refr,
                   ops, aborts, sent, lastDone, creator, marks, orphan>>

\* lines 326-334: await db.add_solved_challenge(..., first_blood=is_first)
TrackRecord ==
    /\ trk.pc = "record"
    /\ LET r == add_solved_challenge(solved_challenges, trk.guild, trk.username,
                                     Head(trk.todo), trk.fb)
       IN  /\ solved_challenges' = r.rows
           /\ creator' = IF r.ok THEN Append(creator, "track") ELSE creator
           /\ trk' = [trk EXCEPT !.pc = "mark", !.fb = FALSE, !.created = r.ok]
    /\ UNCHANGED <<world, tracked_users, guild_first_bloods, guild_settings, poll, refr,
                   ops, aborts, sent, arb, marks, lastDone, orphan>>

\* TrackMark that leaves alone a row the command did not insert itself
TrackMarkOwnRowsOnly ==
    /\ trk.pc = "mark"
    /\ solved_challenges' =
           IF trk.created
           THEN mark_challenge_announced(solved_challenges, trk.guild, trk.username,
                                         Head(trk.todo).name)
           ELSE solved_challenges
    /\ marks' = Marked(trk.guild, trk.username, Head(trk.todo).name, "seed")
    /\ trk' = IF Tail(trk.todo) = <<>> THEN TrackIdle
              ELSE [trk EXCEPT !.pc = "claim", !.todo = Tail(@), !.created = FALSE]
    /\ UNCHANGED <<world, tracked_users, guild_first_bloods, guild_settings, poll, refr,
                   ops, aborts, sent, arb, creator, lastDone, orphan>>

\* lines 336-338: the seeded solve is marked announced
TrackMark ==
    /\ trk.pc = "mark"
    /\ solved_challenges' =
           mark_challenge_announced(solved_challenges, trk.guild, trk.username,
                                    Head(trk.todo).name)
    /\ marks' = Marked(trk.guild, trk.username, Head(trk.todo).name, "seed")
    /\ trk' = IF Tail(trk.todo) = <<>> THEN TrackIdle
              ELSE [trk EXCEPT !.pc = "claim", !.todo = Tail(@), !.created = FALSE]
    /\ UNCHANGED <<world, tracked_users, guild_first_bloods, guild_settings, poll, refr,
                   ops, aborts, sent, arb, creator, lastDone, orphan>>

Track ==
    \/ \E g \in Guilds, name \in Names : TrackStart(g, name)
    \/ TrackAdd \/ TrackClaim \/ TrackRecord \/ TrackMark

(***************************************************************************)
(* bot.py: the /removeuser and /setchannel commands.                       *)
(***************************************************************************)

\* Untrack that also gives up the first bloods of the user: the guild_first_bloods
\* rows held by the removed name are deleted
UntrackReleasesClaims(g, name) ==
    /\ ops < MaxOps
    /\ g \in joined
    /\ remove_user(tracked_users, g, name).ok
    /\ ops' = ops + 1 /\ UNCHANGED aborts
    /\ tracked_users' = remove_user(tracked_users, g, name).rows
    /\ guild_first_bloods' =
           SelectSeq(guild_first_bloods,
                     LAMBDA r : ~(r.guild_id = g /\ r.first_solver_username = Lower(name)))
    /\ UNCHANGED <<world, solved_challenges, guild_settings, poll,
                   refr, trk, sent, arb, lastDone, creator, marks, orphan>>

\* lines 354-364: removed = await db.remove_user(interaction.guild_id, username);
\* when nothing is removed the command changes nothing and is no step
Untrack(g, name) ==
    /\ ops < MaxOps
    /\ g \in joined
    /\ remove_user(tracked_users, g, name).ok
    /\ ops' = ops + 1 /\ UNCHANGED aborts
    /\ tracked_users' = remove_user(tracked_users, g, name).rows
    /\ UNCHANGED <<world, solved_challenges, guild_first_bloods, guild_settings, poll,
                   refr, trk, sent, arb, lastDone, creator, marks, orphan>>

\* lines 473-478: await db.set_announcement_channel(interaction.guild_id, channel.id);
\* setting the channel that is already set changes nothing and is no step
SetChannel(g, ch) ==
    /\ ops < MaxOps
    /\ g \in joined
    /\ ch \in liveChannels
    /\ ChannelGuild(ch) = g
    /\ guild_settings[g] # ch
    /\ ops' = ops + 1 /\ UNCHANGED aborts
    /\ guild_settings' = set_announcement_channel(guild_settings, g, ch)
    /\ UNCHANGED <<world, tracked_users, solved_challenges, guild_first_bloods, poll,
                   refr, trk, sent, arb, lastDone, creator, marks, orphan>>

(***************************************************************************)
(* bot.py: the /refresh command (refresh).                                 *)
(***************************************************************************)

\* lines 511-517: tracked = await db.get_tracked_users(interaction.guild_id); the
\* command was typed in channel ch of the guild.  With no tracked user it replies
\* and changes nothing, which is no step
RefreshStart(g, ch) ==
    /\ refr.pc = "idle"
    /\ ops < MaxOps
    /\ g \in joined
    /\ ch \in liveChannels
    /\ ChannelGuild(ch) = g
    /\ ops' = ops + 1 /\ UNCHANGED aborts
    /\ LET tracked == get_tracked_users(tracked_users, g)
       IN  /\ tracked # <<>>
           /\ refr' = [RefreshIdle EXCEPT !.pc = "fetch", !.guild = g, !.channel = ch,
                                          !.users = tracked, !.username = Head(tracked)]
    /\ UNCHANGED <<world, store, poll, trk, sent, arb, lastDone, creator, marks, orphan>>

\* line 523: user = await fetch_user(...); an error is caught at line 548
RefreshFetch ==
    /\ refr.pc = "fetch"
    /\ \/ \E user \in FetchUser(refr.username) :
             refr' = [refr EXCEPT !.pc = "existing", !.snap = user.solved_challenges]
       \/ refr' = [refr EXCEPT !.pc = "sleep"]
    /\ UNCHANGED <<world, store, poll, trk, ops, aborts, sent, arb, lastDone, creator, marks, orphan>>

\* lines 524-527: existing = await db.get_solved_challenges(...), then the diff
RefreshExisting ==
    /\ refr.pc = "existing"
    /\ LET existing == get_solved_challenges(solved_challenges, refr.guild, refr.username)
           todo == Diff(existing, refr.snap)
       IN  refr' = IF todo = <<>> THEN [refr EXCEPT !.pc = "sleep", !.snap = <<>>]
                   ELSE [refr EXCEPT !.pc = "claim", !.todo = todo, !.snap = <<>>]
    /\ UNCHANGED <<world, store, poll, trk, ops, aborts, sent, arb, lastDone, creator, marks, orphan>>

\* lines 528-530: is_first = await db.check_and_set_first_blood(...)
RefreshClaim ==
    /\ refr.pc = "claim"
    /\ LET challenge == Head(refr.todo)
           r == check_and_set_first_blood(guild_first_bloods, refr.guild,
                                          challenge.name, refr.username)
       IN  /\ guild_first_bloods' = r.rows
           /\ arb' = Arbitrated(refr.guild, challenge.name, r.ok)
           /\ refr' = [refr EXCEPT !.pc = "record", !.fb = r.ok]
    /\ UNCHANGED <<world, tracked_users, solved_challenges, guild_settings, poll, trk,
                   ops, aborts, sent, lastDone, creator, marks, orphan>>

\* the entry lines 540-547 append to new_solves_data; created is not in the source:
\* it remembers what add_solved_challenge returned, which line 531 drops
NewSolve(g, username, challenge, first_blood, created) ==
    [guild_id |-> g, cryptohack_username |-> username, challenge_name |-> challenge.name,
     first_blood |-> first_blood, created |-> created]

\* lines 531-547: await db.add_solved_challenge(...), then new_solves_data.append(...)
RefreshRecord ==
    /\ refr.pc = "record"
    /\ LET challenge == Head(refr.todo)
           r == add_solved_challenge(solved_challenges, refr.guild, refr.username,
                                     challenge, refr.fb)
           entry == NewSolve(refr.guild, refr.username, challenge, refr.fb, r.ok)
       IN  /\ solved_challenges' = r.rows
           /\ creator' = IF r.ok THEN Append(creator, "refresh") ELSE creator
           /\ refr' = [refr EXCEPT !.pc = IF Tail(refr.todo) = <<>> THEN "sleep"
                                          ELSE "claim",
                                   !.todo = Tail(@), !.fb = FALSE,
                                   !.new_solves_data = Append(@, entry)]
    /\ UNCHANGED <<world, tracked_users, guild_first_bloods, guild_settings, poll, trk,
                   ops, aborts, sent, arb, marks, lastDone, orphan>>

\* lines 551-558: asyncio.sleep(0.5) and the next tracked user; after the last one
\* the reply, and the loop over new_solves_data when it is not empty
RefreshSleep ==
    /\ refr.pc = "sleep"
    /\ LET rest == Tail(refr.users)
       IN  refr' = IF rest # <<>>
                   THEN [refr EXCEPT !.pc = "fetch", !.users = rest, !.username = Head(rest)]
                   ELSE IF refr.new_solves_data = <<>> THEN RefreshIdle
                   ELSE [refr EXCEPT !.pc = "solvers", !.users = <<>>, !.username = NoUser]
    /\ UNCHANGED <<world, store, poll, trk, ops, aborts, sent, arb, lastDone, creator, marks, orphan>>

\* the loop of line 560: its next solve, or the command is over
RefreshLoop(rest) ==
    IF rest = <<>> THEN RefreshIdle
    ELSE [refr EXCEPT !.pc = "solvers", !.new_solves_data = rest, !.rank = 0]

\* lines 562-575: the server rank and the image; an exception goes to line 584,
\* where the error text is sent (and the command dies if that send raises too)
RefreshSolvers ==
    /\ refr.pc = "solvers"
    /\ LET solve == Head(refr.new_solves_data)
           server_solvers == get_challenge_solvers(solved_challenges, tracked_users,
                                                   refr.guild, solve.challenge_name)
       IN  \/ refr' = [refr EXCEPT !.pc = "send", !.rank = Len(server_solvers)]
           \/ refr' = RefreshLoop(Tail(refr.new_solves_data))
           \/ refr' = RefreshIdle
    /\ UNCHANGED <<world, store, poll, trk, ops, aborts, sent, arb, lastDone, creator, marks, orphan>>

\* RefreshSend that skips channel.send and goes on to the mark
RefreshSendDropped ==
    /\ refr.pc = "send"
    /\ refr' = [refr EXCEPT !.pc = "mark"]
    /\ UNCHANGED <<world, store, poll, trk, ops, aborts, sent, arb, lastDone, creator,
                   marks, orphan>>

\* lines 577-578: await interaction.channel.send(file=file); a failure goes to
\* line 584 and the solve is not marked
RefreshSend ==
    /\ refr.pc = "send"
    /\ \E outcome \in Outcomes :
          /\ sent' = Append(sent, Dispatch("refresh", Head(refr.new_solves_data),
                                           refr.channel, refr.rank, outcome))
          /\ IF outcome = "sent" THEN refr' = [refr EXCEPT !.pc = "mark"]
             ELSE \/ refr' = RefreshLoop(Tail(refr.new_solves_data))
                  \/ refr' = RefreshIdle
    /\ UNCHANGED <<world, store, poll, trk, ops, aborts, arb, lastDone, creator, marks, orphan>>

\* lines 581-583: await db.mark_challenge_announced(...)
RefreshMark ==
    /\ refr.pc = "mark"
    /\ LET solve == Head(refr.new_solves_data)
       IN  solved_challenges' =
               mark_challenge_announced(solved_challenges, refr.guild,
                                        solve.cryptohack_username, solve.challenge_name)
    /\ marks' = Marked(refr.guild, Head(refr.new_solves_data).cryptohack_username,
                       Head(refr.new_solves_data).challenge_name, "dispatched")
    /\ refr' = RefreshLoop(Tail(refr.new_solves_data))
    /\ UNCHANGED <<world, tracked_users, guild_first_bloods, guild_settings, poll, trk,
                   ops, aborts, sent, arb, creator, lastDone, orphan>>

Refresh ==
    \/ \E g \in Guilds, ch \in Channels : RefreshStart(g, ch)
    \/ RefreshFetch \/ RefreshExisting \/ RefreshClaim \/ RefreshRecord \/ RefreshSleep
    \/ RefreshSolvers \/ RefreshSend \/ RefreshMark

(***************************************************************************)
(* The specification: the background loop, the commands and the upstream   *)
(* service interleave at every await.                                      *)
(***************************************************************************)
Next ==
    \/ \E a \in Accounts, c \in Challenges, d \in 1..(MaxOps + 1) : UpstreamSolve(a, c, d)
    \/ Poller
    \/ Track
    \/ \E g \in Guilds, name \in Names : Untrack(g, name)
    \/ \E g \in Guilds, ch \in Channels : SetChannel(g, ch)
    \/ Refresh

Spec == Init /\ [][Next]_vars

(***************************************************************************)
(* The same with store failures: add_solved_challenge raises something     *)
(* other than IntegrityError (the database is locked, the disk is full)    *)
(* after the first-blood claim of the same loop turn went through.         *)
(***************************************************************************)

\* the exception leaves _check_user_solves and is caught at line 74
PollAbort ==
    /\ poll.pc = "record"
    /\ aborts < MaxAborts
    /\ aborts' = aborts + 1
    /\ orphan' = IF poll.fb
                 THEN orphan \cup {<<poll.guild, poll.username, Head(poll.todo).name>>}
                 ELSE orphan
    /\ poll' = [poll EXCEPT !.pc = "sleep", !.todo = <<>>, !.fb = FALSE, !.failed = TRUE]
    /\ UNCHANGED <<world, store, refr, trk, ops, sent, arb, creator, marks, lastDone>>

\* the exception is caught at line 548 and the loop goes on with the next user
RefreshAbort ==
    /\ refr.pc = "record"
    /\ aborts < MaxAborts
    /\ aborts' = aborts + 1
    /\ orphan' = IF refr.fb
                 THEN orphan \cup {<<refr.guild, refr.username, Head(refr.todo).name>>}
                 ELSE orphan
    /\ refr' = [refr EXCEPT !.pc = "sleep", !.todo = <<>>, !.fb = FALSE]
    /\ UNCHANGED <<world, store, poll, trk, ops, sent, arb, creator, marks, lastDone>>

NextFault == Next \/ PollAbort \/ RefreshAbort

SpecFault == Init /\ [][NextFault]_vars

(***************************************************************************)
(* The background loop on its own, on a store that tracks two users in     *)
(* guild 1 and one in guild 2, with the bot a member of both guilds.       *)
(* Guild 1 has #general, which is its system channel, and #cryptohack;     *)
(* guild 2 has #cryptohack only.  The environment may remove the bot from  *)
(* a guild and delete a channel.                                           *)
(***************************************************************************)
InitPoll ==
    /\ tracked_users = <<[guild_id |-> 1, cryptohack_username |-> "alice"],
                         [guild_id |-> 1, cryptohack_username |-> "bob"],
                         [guild_id |-> 2, cryptohack_username |-> "alice"]>>
    /\ solved_challenges = <<>>
    /\ guild_first_bloods = <<>>
    /\ guild_settings = [g \in Guilds |-> NoChannel]
    /\ InitRest
    /\ joined = {1, 2}
    /\ liveChannels = {11, 12, 13}
    /\ system_channel = [g \in Guilds |-> IF g = 1 THEN 11 ELSE NoChannel]

\* the bot is removed from a guild: self.get_guild(guild_id) finds nothing from
\* now on (line 63); the rows of the guild stay in the store
GuildRemove(g) ==
    /\ ops < MaxOps
    /\ g \in joined
    /\ ops' = ops + 1 /\ UNCHANGED aborts
    /\ joined' = joined \ {g}
    /\ UNCHANGED <<upstream, today, liveChannels, system_channel, store, poll, refr, trk,
                   sent, arb, lastDone, creator, marks, orphan>>

\* a channel is deleted: fetch_channel raises NotFound and the guild's cache,
\* its text_channels and its system_channel no longer have it (lines 124-134)
ChannelDelete(ch) ==
    /\ ops < MaxOps
    /\ ch \in liveChannels
    /\ ops' = ops + 1 /\ UNCHANGED aborts
    /\ liveChannels' = liveChannels \ {ch}
    /\ system_channel' = [g \in Guilds |-> IF system_channel[g] = ch THEN NoChannel
                                            ELSE system_channel[g]]
    /\ UNCHANGED <<upstream, today, joined, store, poll, refr, trk,
                   sent, arb, lastDone, creator, marks, orphan>>

NextPoll ==
    \/ \E a \in Accounts, c \in Challenges, d \in 1..(MaxOps + 1) : UpstreamSolve(a, c, d)
    \/ Poller
    \/ PollAbort
    \/ \E g \in Guilds, ch \in Channels : SetChannel(g, ch)
    \/ \E g \in Guilds : GuildRemove(g)
    \/ \E ch \in Channels : ChannelDelete(ch)

SpecPoll == InitPoll /\ [][NextPoll]_vars

(***************************************************************************)
(* The operations of the bot on two guilds: the bot is a member of guild 1 *)
(* and of guild 2, each guild has one channel, alice is tracked in both;   *)
(* the two operations so far were the upstream solves of "RSA" by alice    *)
(* and by Bob, after alice was added.                                      *)
(***************************************************************************)
InitTwo ==
    /\ tracked_users = <<[guild_id |-> 1, cryptohack_username |-> "alice"],
                         [guild_id |-> 2, cryptohack_username |-> "alice"]>>
    /\ solved_challenges = <<>>
    /\ guild_first_bloods = <<>>
    /\ guild_settings = [g \in Guilds |-> NoChannel]
    /\ upstream = [a \in Accounts |-> <<Challenge("RSA", 1)>>]
    /\ today = 1
    /\ poll = PollIdle
    /\ refr = RefreshIdle
    /\ trk = TrackIdle
    /\ ops = 2
    /\ aborts = 0
    /\ sent = <<>>
    /\ arb = [k \in Guilds \X Challenges |-> [called |-> FALSE, wins |-> 0]]
    /\ lastDone = [k \in Guilds \X {Lower(a) : a \in Accounts} |-> -1]
    /\ orphan = {}
    /\ creator = <<>>
    /\ marks = {}
    /\ joined = {1, 2}
    /\ liveChannels = {11, 12}
    /\ system_channel = [g \in Guilds |-> NoChannel]

NextTwo ==
    \/ Poller
    \/ Track
    \/ \E g \in Guilds, name \in Names : Untrack(g, name)
    \/ \E g \in Guilds, ch \in Channels : SetChannel(g, ch)
    \/ Refresh

SpecTwo == InitTwo /\ [][NextTwo]_vars

(***************************************************************************)
(* The bot left running: the interval of tasks.loop keeps starting the     *)
(* background loop again after the operations of the model are used up,    *)
(* and every coroutine that has started goes on to its end.                *)
(***************************************************************************)

\* line 55: @tasks.loop(minutes=CHECK_INTERVAL) starts check_new_solves once more,
\* with the commands at rest; a run beside a command is one started by PollStart
PollTick ==
    /\ poll.pc = "idle"
    /\ ops = MaxOps
    /\ refr.pc = "idle"
    /\ trk.pc = "idle"
    /\ poll' = [PollIdle EXCEPT !.pc = "guild", !.guild_ids = get_guild_ids(tracked_users)]
    /\ UNCHANGED <<world, store, refr, trk, ops, aborts, sent, arb, lastDone, creator,
                   marks, orphan>>

\* the steps of a /refresh command that has started
RefreshRuns ==
    \/ RefreshFetch \/ RefreshExisting \/ RefreshClaim \/ RefreshRecord \/ RefreshSleep
    \/ RefreshSolvers \/ RefreshSend \/ RefreshMark

\* the steps of an /adduser command that has started
TrackRuns == TrackAdd \/ TrackClaim \/ TrackRecord \/ TrackMark

NextLive == Next \/ PollTick

SpecLive ==
    /\ Init
    /\ [][NextLive]_vars
    /\ WF_vars(Poller \/ PollTick)
    /\ WF_vars(RefreshRuns)
    /\ WF_vars(TrackRuns)

(***************************************************************************)
(* Properties.                                                             *)
(***************************************************************************)
SolveKey(r) == <<r.guild_id, r.cryptohack_username, r.challenge_name>>

ClaimKey(r) == <<r.guild_id, r.challenge_name>>

\* the (guild, user, challenge) a process is about to claim or record
Target(proc) == <<proc.guild, Lower(proc.username), Head(proc.todo).name>>

Recorded(key) == \E i \in 1..Len(solved_challenges) : SolveKey(solved_challenges[i]) = key

Claimed(pair) == \E i \in 1..Len(guild_first_bloods) : ClaimKey(guild_first_bloods[i]) = pair

\* C1: in every reachable state there is at most one solved_challenges row per
\* (guild, user, challenge), whatever the interleaving of poll steps, refreshes
\* and seeding.
C1_OneSolvePerKey ==
    \A i, j \in 1..Len(solved_challenges) :
        SolveKey(solved_challenges[i]) = SolveKey(solved_challenges[j]) => i = j

\* a refresh has had its insert rejected because the row was already there
C1_Witness ==
    \E i \in 1..Len(refr.new_solves_data) :
        /\ ~refr.new_solves_data[i].created
        /\ Recorded(SolveKey(refr.new_solves_data[i]))

\* C2: there is at most one guild_first_bloods row per (guild, challenge), and
\* every solved_challenges row with first_blood = TRUE belongs to the user that
\* row names as first solver.
C2_FirstBloodOwner ==
    /\ \A i, j \in 1..Len(guild_first_bloods) :
          ClaimKey(guild_first_bloods[i]) = ClaimKey(guild_first_bloods[j]) => i = j
    /\ \A i \in 1..Len(solved_challenges) :
          solved_challenges[i].first_blood =>
              \E k \in 1..Len(guild_first_bloods) :
                  /\ ClaimKey(guild_first_bloods[k]) =
                         <<solved_challenges[i].guild_id, solved_challenges[i].challenge_name>>
                  /\ guild_first_bloods[k].first_solver_username =
                         solved_challenges[i].cryptohack_username

\* two users of one guild recorded the same challenge, one with first blood and
\* one without
C2_Witness ==
    \E i, j \in 1..Len(solved_challenges) :
        /\ solved_challenges[i].guild_id = solved_challenges[j].guild_id
        /\ solved_challenges[i].challenge_name = solved_challenges[j].challenge_name
        /\ solved_challenges[i].cryptohack_username # solved_challenges[j].cryptohack_username
        /\ solved_challenges[i].first_blood
        /\ ~solved_challenges[j].first_blood

\* what one call of check_and_set_first_blood for key did, given its answer
ClaimCall(key, answer) ==
    LET pair == <<key[1], key[3]>>
        row == [guild_id |-> key[1], challenge_name |-> key[3],
                first_solver_username |-> key[2]]
    IN  /\ answer <=> (~Claimed(pair) /\ guild_first_bloods' = Append(guild_first_bloods, row))
        /\ Claimed(pair) => (~answer /\ guild_first_bloods' = guild_first_bloods)

\* C3: check_and_set_first_blood answers True iff that call inserted the row; once
\* a row exists every call for the pair answers False, the holder's included, and
\* the table is left as it was.
C3_ClaimAnswer ==
    [][/\ (poll.pc = "claim" /\ poll'.pc = "record") => ClaimCall(Target(poll), poll'.fb)
       /\ (refr.pc = "claim" /\ refr'.pc = "record") => ClaimCall(Target(refr), refr'.fb)
       /\ (trk.pc = "claim" /\ trk'.pc = "record") => ClaimCall(Target(trk), trk'.fb)]_vars

\* the holder of a claim asked again and was answered False
HolderRefused(proc) ==
    /\ proc.pc = "record"
    /\ ~proc.fb
    /\ \E k \in 1..Len(guild_first_bloods) :
          /\ ClaimKey(guild_first_bloods[k]) = <<proc.guild, Head(proc.todo).name>>
          /\ guild_first_bloods[k].first_solver_username = Lower(proc.username)

C3_Witness == HolderRefused(poll) \/ HolderRefused(refr) \/ HolderRefused(trk)

\* C4: of all the callers that ask for first blood on one (guild, challenge),
\* racing or not, exactly one is answered True.
C4_OneWinner ==
    \A pair \in Guilds \X Challenges : arb[pair].called => arb[pair].wins = 1

\* two callers are between their claim and their insert for the same pair
Racing(p, q) ==
    /\ p.pc = "record"
    /\ q.pc = "record"
    /\ p.guild = q.guild
    /\ Head(p.todo).name = Head(q.todo).name

C4_Witness ==
    \/ Racing(poll, refr) /\ (poll.fb # refr.fb)
    \/ Racing(poll, trk) /\ (poll.fb # trk.fb)
    \/ Racing(refr, trk) /\ (refr.fb # trk.fb)

\* C5: when a step died between its won claim and its insert, the row that a
\* later poll or refresh step creates for that (guild, user, challenge) has
\* first_blood = TRUE.
C5_OrphanKeepsFirstBlood ==
    [][/\ (/\ poll.pc = "record" /\ poll'.pc # "record"
           /\ Target(poll) \in orphan
           /\ Len(solved_challenges') = Len(solved_challenges) + 1) =>
              solved_challenges'[Len(solved_challenges')].first_blood
       /\ (/\ refr.pc = "record" /\ refr'.pc # "record"
           /\ Target(refr) \in orphan
           /\ Len(solved_challenges') = Len(solved_challenges) + 1) =>
              solved_challenges'[Len(solved_challenges')].first_blood]_vars

\* C6: add_solved_challenge on a key that is already recorded answers False and
\* leaves the table as it was, whatever the call carries.
C6_RecorderIdempotent ==
    [][/\ (poll.pc = "record" /\ poll'.pc # "record" /\ Recorded(Target(poll))) =>
              (solved_challenges' = solved_challenges /\ poll'.made = poll.made)
       /\ (refr.pc = "record" /\ refr'.pc # "record" /\ Recorded(Target(refr))) =>
              /\ solved_challenges' = solved_challenges
              /\ ~refr'.new_solves_data[Len(refr'.new_solves_data)].created
       /\ (trk.pc = "record" /\ trk'.pc # "record" /\ Recorded(Target(trk))) =>
              (solved_challenges' = solved_challenges /\ ~trk'.created)]_vars

\* a refresh carried first_blood = TRUE into a rejected insert; the row has FALSE
C6_Witness ==
    \E i \in 1..Len(refr.new_solves_data), j \in 1..Len(solved_challenges) :
        /\ ~refr.new_solves_data[i].created
        /\ SolveKey(solved_challenges[j]) = SolveKey(refr.new_solves_data[i])
        /\ refr.new_solves_data[i].first_blood
        /\ ~solved_challenges[j].first_blood

\* C7: a per-account poll step on the snapshot that the last completed step of
\* that (guild, user) worked on creates no solved_challenges row and no
\* guild_first_bloods row.
C7_SecondRunCreatesNothing == poll.rerun => poll.made = 0

\* such a second step is over, on a snapshot that is not empty
C7_Witness == poll.pc = "sleep" /\ poll.rerun /\ poll.snap # <<>>

\* C8: a row whose announced is TRUE keeps it TRUE in every later state.
C8_AnnouncedStays ==
    [][\A i \in 1..Len(solved_challenges) :
          solved_challenges[i].announced =>
              /\ i <= Len(solved_challenges')
              /\ SolveKey(solved_challenges'[i]) = SolveKey(solved_challenges[i])
              /\ solved_challenges'[i].announced]_vars

\* an announced row is the target of a late insert or of another mark
C8_Witness ==
    \E i \in 1..Len(solved_challenges) :
        /\ solved_challenges[i].announced
        /\ \/ refr.pc = "record" /\ Target(refr) = SolveKey(solved_challenges[i])
           \/ poll.pc = "record" /\ Target(poll) = SolveKey(solved_challenges[i])

\* C9: no solve has two notifications delivered for it.
C9_AtMostOneDispatch ==
    \A i, j \in 1..Len(sent) :
        /\ sent[i].outcome = "sent"
        /\ sent[j].outcome = "sent"
        /\ sent[i].guild_id = sent[j].guild_id
        /\ sent[i].username = sent[j].username
        /\ sent[i].challenge_name = sent[j].challenge_name
        => i = j

\* the solved_challenges row of key was inserted by who
InsertedBy(key, who) ==
    \E j \in 1..Len(solved_challenges) :
        SolveKey(solved_challenges[j]) = key /\ j <= Len(creator) /\ creator[j] = who

\* C10: when a refresh and the background poll race on one solve and the insert of
\* the refresh is the rejected one, the refresh does nothing more for that solve:
\* it is not among its new solves, so it is neither dispatched nor marked by it.
C10_RefreshLoserIsNoOp ==
    \A i \in 1..Len(refr.new_solves_data) :
        InsertedBy(SolveKey(refr.new_solves_data[i]), "poll") =>
            refr.new_solves_data[i].created

\* the solved_challenges rows of (guild, user) in table t
RowsOf(t, g, username) ==
    SelectSeq(t, LAMBDA r : r.guild_id = g /\ r.cryptohack_username = Lower(username))

\* the running /adduser command has been the only operation since it began
TrackedAlone == trk.began = ops /\ poll.pc = "idle" /\ refr.pc = "idle"

\* the step that ends an /adduser command which did add the user
TrackEnds ==
    /\ trk.pc # "idle"
    /\ trk'.pc = "idle"
    /\ trk.pc = "add" => tracked_users' # tracked_users

\* C11: an /adduser command that added the user and ran with nothing else running
\* ends with exactly one solved_challenges row per entry of the user's upstream
\* snapshot for that (guild, user), all of them announced, and no step of the
\* command sends a notification.
C11_SeedingAlone ==
    [][/\ (trk' # trk) => (sent' = sent)
       /\ (TrackEnds /\ TrackedAlone) =>
              LET rows == RowsOf(solved_challenges', trk.guild, trk.username)
              IN  /\ Len(rows) = Len(upstream[trk.username])
                  /\ \A i \in 1..Len(rows) : rows[i].announced]_vars

\* a command that ran alone is at its last step, on a snapshot of two challenges,
\* the first of which it has recorded and marked
C11_Witness ==
    /\ trk.pc = "mark"
    /\ Tail(trk.todo) = <<>>
    /\ TrackedAlone
    /\ Len(upstream[trk.username]) = 2
    /\ \E i \in 1..Len(solved_challenges) :
          /\ SolveKey(solved_challenges[i]) =
                 <<trk.guild, Lower(trk.username), upstream[trk.username][1].name>>
          /\ solved_challenges[i].announced
    /\ sent = <<>>

\* the (guild, user, challenge) that were in a user's snapshot when an /adduser
\* command added the user: those the command has marked, and those it still has to do
Seeded ==
    {<<m[1], m[2], m[3]>> : m \in {n \in marks : n[4] = "seed"}}
    \cup (IF trk.pc \in {"claim", "record", "mark"}
          THEN {<<trk.guild, Lower(trk.username), trk.todo[i].name>> :
                   i \in 1..Len(trk.todo)}
          ELSE {})

\* C12: the background deliverer never sends a notification for a solve that was
\* in the user's snapshot when the user was tracked.
C12_SeededNeverDispatched ==
    [][(Len(sent') > Len(sent) /\ sent'[Len(sent')].by = "poll") =>
          <<sent'[Len(sent')].guild_id, sent'[Len(sent')].username,
            sent'[Len(sent')].challenge_name>> \notin Seeded]_vars

\* C13: the notifications one _announce_new_solves call sends go out in ascending
\* solved_date order: of two solves of the list it read, the one with the earlier
\* solved_date is sent first.
C13_OldestFirst ==
    \A i, j \in 1..Len(poll.tried) :
        (i < j /\ poll.tried[i].outcome = "sent" /\ poll.tried[j].outcome = "sent") =>
            poll.tried[i].solved_date <= poll.tried[j].solved_date

\* the row of key in table t has announced = TRUE
AnnouncedIn(t, key) ==
    \E i \in 1..Len(t) : SolveKey(t[i]) = key /\ t[i].announced

\* C14: with a channel resolved, whatever channel.send did for a solve (sent,
\* Forbidden, any other exception) the next step of _announce_new_solves marks that
\* solve announced, and when the call returns every solve of the list it read is
\* announced.
C14_BatchAllMarked ==
    [][/\ (poll.pc = "send" /\ poll' # poll) =>
              (poll'.pc = "mark" /\ poll'.batch = poll.batch)
       /\ (poll.pc = "mark" /\ poll' # poll) =>
              AnnouncedIn(solved_challenges', SolveKey(Head(poll.batch)))
       /\ (poll.pc = "mark" /\ poll'.pc = "guild") =>
              \A i \in 1..Len(poll.unannounced) :
                  AnnouncedIn(solved_challenges', SolveKey(poll.unannounced[i]))]_vars

\* a list of two solves: the send of the first raised Forbidden and the solve is
\* announced, the send of the second raised something else and it is about to be marked
C14_Witness ==
    /\ poll.pc = "mark"
    /\ Len(poll.unannounced) = 2
    /\ Len(poll.batch) = 1
    /\ Len(poll.tried) = 2
    /\ poll.tried[1].outcome = "forbidden"
    /\ poll.tried[2].outcome = "error"
    /\ AnnouncedIn(solved_challenges, SolveKey(poll.unannounced[1]))

\* C15: once a channel.send for a solve has failed, in _announce_new_solves or in
\* /refresh, the solve is marked announced (at the sender's very next step) and the
\* background deliverer makes no later send for it.
C15_FailedDispatchIsFinal ==
    \A i \in 1..Len(sent) :
        sent[i].outcome # "sent" =>
            /\ \/ AnnouncedIn(solved_challenges,
                              <<sent[i].guild_id, sent[i].username, sent[i].challenge_name>>)
               \/ (sent[i].by = "poll" /\ i = Len(sent) /\ poll.pc = "mark")
               \/ (sent[i].by = "refresh" /\ i = Len(sent) /\ refr.pc = "mark")
            /\ \A j \in 1..Len(sent) :
                  (j > i /\ sent[j].by = "poll") =>
                      <<sent[j].guild_id, sent[j].username, sent[j].challenge_name>> #
                          <<sent[i].guild_id, sent[i].username, sent[i].challenge_name>>

\* the deliverer is inside its loop over the list it read
Delivering == poll.pc \in {"prepare", "send", "mark"}

\* C16: inside one _announce_new_solves call a failure on one solve never cuts the
\* loop short: the solves still to do are always the tail of the list read, a solve
\* leaves the loop only through its mark step, the loop then goes on to prepare the
\* next solve, and the call returns only after the last one.
C16_FailureDoesNotStopBatch ==
    [][(Delivering /\ poll' # poll) =>
          /\ poll.batch = SubSeq(poll.unannounced,
                                 Len(poll.unannounced) - Len(poll.batch) + 1,
                                 Len(poll.unannounced))
          /\ IF poll.pc = "mark"
             THEN IF Tail(poll.batch) = <<>> THEN poll'.pc = "guild"
                  ELSE /\ poll'.pc = "prepare"
                       /\ poll'.batch = Tail(poll.batch)
                       /\ poll'.unannounced = poll.unannounced
             ELSE /\ poll'.batch = poll.batch
                  /\ poll'.pc \in {"send", "mark"}]_vars

\* the send of the first solve of a list failed and the second solve has been sent
C16_Witness ==
    /\ poll.pc = "mark"
    /\ Len(poll.unannounced) = 2
    /\ Len(poll.tried) = 2
    /\ poll.tried[1].outcome = "error"
    /\ poll.tried[2].outcome = "sent"

\* C17: _announce_new_solves goes to line 136 exactly when neither the configured
\* channel, nor #cryptohack, nor the system channel gave a channel; it then marks
\* every solve of the list it read announced and sends nothing.
C17_NoChannelMarksAll ==
    [][/\ (poll.pc = "resolve" /\ poll' # poll) =>
              (poll'.pc = "markall" <=> poll'.channel = NoChannel)
       /\ (poll.pc = "markall" /\ poll' # poll) =>
              /\ sent' = sent
              /\ poll.tried = <<>>
              /\ AnnouncedIn(solved_challenges', SolveKey(Head(poll.batch)))
       /\ (poll.pc = "markall" /\ poll'.pc = "guild") =>
              \A i \in 1..Len(poll.unannounced) :
                  AnnouncedIn(solved_challenges', SolveKey(poll.unannounced[i]))]_vars

\* a guild without any channel has two pending solves: the first is marked, the
\* second is about to be, and nothing has been sent
C17_Witness ==
    /\ poll.pc = "markall"
    /\ Len(poll.unannounced) = 2
    /\ Len(poll.batch) = 1
    /\ AnnouncedIn(solved_challenges, SolveKey(poll.unannounced[1]))
    /\ sent = <<>>

\* a channel.send was made for key, whatever its outcome
Dispatched(key) ==
    \E i \in 1..Len(sent) :
        <<sent[i].guild_id, sent[i].username, sent[i].challenge_name>> = key

\* key was marked announced on one of the paths that send nothing: the seeding loop
\* of /adduser, the deliverer without a channel, the deliverer's handler after a
\* failure that came before channel.send
MarkedSilently(key) ==
    \E why \in {"seed", "nochannel", "unprepared"} :
        <<key[1], key[2], key[3], why>> \in marks

\* C18 as stated: every row with announced = TRUE has had a channel.send
\* made for it.
C18_AnnouncedWasDispatched ==
    \A i \in 1..Len(solved_challenges) :
        solved_challenges[i].announced => Dispatched(SolveKey(solved_challenges[i]))

\* C18: every row with announced = TRUE has had a channel.send made for it, or was
\* marked by the seeding loop, by the deliverer that found no channel, or by the
\* deliverer's handler after a failure before the send.
C18_AnnouncedHasCause ==
    \A i \in 1..Len(solved_challenges) :
        solved_challenges[i].announced =>
            \/ Dispatched(SolveKey(solved_challenges[i]))
            \/ MarkedSilently(SolveKey(solved_challenges[i]))

\* two announced rows: one was sent, the other was seeded and never sent
C18_Witness ==
    \E i, j \in 1..Len(solved_challenges) :
        /\ solved_challenges[i].announced
        /\ Dispatched(SolveKey(solved_challenges[i]))
        /\ solved_challenges[j].announced
        /\ ~Dispatched(SolveKey(solved_challenges[j]))
        /\ <<solved_challenges[j].guild_id, solved_challenges[j].cryptohack_username,
             solved_challenges[j].challenge_name, "seed">> \in marks

\* how many rows of t share guild and challenge with row and have a solved_date that
\* is not after row's
RankByDate(t, row) ==
    Cardinality({i \in 1..Len(t) :
        /\ t[i].guild_id = row.guild_id
        /\ t[i].challenge_name = row.challenge_name
        /\ t[i].solved_date <= row.solved_date})

\* every recorded solver of challenge name in guild g is a tracked user
SolversTracked(g, name) ==
    \A i \in 1..Len(solved_challenges) :
        (solved_challenges[i].guild_id = g /\ solved_challenges[i].challenge_name = name) =>
            \E k \in 1..Len(tracked_users) :
                /\ tracked_users[k].guild_id = g
                /\ tracked_users[k].cryptohack_username =
                       solved_challenges[i].cryptohack_username

\* C19: the server rank computed for a solve's notification, by the deliverer or by
\* /refresh, is the number of solved_challenges rows of that (guild, challenge)
\* whose solved_date is not after that solve's (checked where every recorded solver
\* is still tracked).
C19_RankCountsEarlierSolves ==
    [][/\ (/\ poll.pc = "prepare" /\ poll'.pc = "send"
           /\ SolversTracked(poll.guild, Head(poll.batch).challenge_name)) =>
              poll'.rank = RankByDate(solved_challenges, Head(poll.batch))
       /\ (/\ refr.pc = "solvers" /\ refr'.pc = "send"
           /\ SolversTracked(refr.guild, Head(refr.new_solves_data).challenge_name)) =>
              \A i \in 1..Len(solved_challenges) :
                  SolveKey(solved_challenges[i]) = SolveKey(Head(refr.new_solves_data)) =>
                      refr'.rank = RankByDate(solved_challenges, solved_challenges[i])]_vars

\* the step in which the per-account step of the run fails: fetch_user raised, or
\* the store raised between the claim and the insert
StepFails ==
    /\ poll' # poll
    /\ \/ poll.pc = "fetch" /\ poll'.pc # "existing"
       \/ poll.pc = "record" /\ aborts' # aborts

\* C20: a failure in the per-account step of one user does not end the run of
\* check_new_solves: the users and guilds still to do stay as they were, the loop
\* goes on with the next user of the guild, after the last user _announce_new_solves
\* is called for the guild, and the run ends only when no guild is left.
C20_FailureDoesNotStopRun ==
    [][/\ StepFails =>
              /\ poll'.pc = "sleep"
              /\ poll'.users = poll.users
              /\ poll'.guild = poll.guild
              /\ poll'.guild_ids = poll.guild_ids
       /\ (poll.pc = "sleep" /\ poll' # poll) =>
              /\ poll'.guild = poll.guild
              /\ poll'.guild_ids = poll.guild_ids
              /\ IF Tail(poll.users) = <<>> THEN poll'.pc = "announce"
                 ELSE /\ poll'.pc = "fetch"
                      /\ poll'.username = Head(Tail(poll.users))
                      /\ poll'.users = Tail(poll.users)
       /\ (poll.pc \notin {"idle", "guild"} /\ poll' # poll) =>
              /\ poll'.pc # "idle"
              /\ poll'.guild_ids = poll.guild_ids
       /\ (poll.pc = "guild" /\ poll'.pc = "idle") => poll.guild_ids = <<>>]_vars

\* the step of alice in guild 1 failed; after it bob's solve was recorded and sent
\* in guild 1, and the run is now sending in guild 2
C20_Witness ==
    /\ poll.failed
    /\ poll.guild = 2
    /\ poll.pc = "send"
    /\ upstream["alice"] # <<>>
    /\ RowsOf(solved_challenges, 1, "alice") = <<>>
    /\ \E i \in 1..Len(sent) :
          sent[i].by = "poll" /\ sent[i].guild_id = 1 /\ sent[i].username = "bob"

\* C21: when fetch_user raises UserNotFoundError or CryptoHackAPIError in the
\* per-account step of the background loop, the step is over at once and no table
\* has changed: no solved_challenges, guild_first_bloods or tracked_users row is
\* created, changed or removed, so the account stays tracked, and nothing is sent.
C21_FailedFetchChangesNothing ==
    [][(poll.pc = "fetch" /\ poll' # poll /\ poll'.pc # "existing") =>
          /\ poll'.pc = "sleep"
          /\ tracked_users' = tracked_users
          /\ solved_challenges' = solved_challenges
          /\ guild_first_bloods' = guild_first_bloods
          /\ guild_settings' = guild_settings
          /\ sent' = sent]_vars

\* the fetch for alice failed while upstream had a solve of hers that is not
\* recorded: the step is over, alice is still tracked and has no row
C21_Witness ==
    /\ poll.pc = "sleep"
    /\ poll.failed
    /\ poll.guild = 1
    /\ poll.username = "alice"
    /\ upstream["alice"] # <<>>
    /\ RowsOf(solved_challenges, 1, "alice") = <<>>
    /\ guild_first_bloods = <<>>
    /\ \E i \in 1..Len(tracked_users) :
          tracked_users[i] = [guild_id |-> 1, cryptohack_username |-> "alice"]

\* C22: in a run of the background loop, a guild id for which get_guild finds
\* nothing is skipped: the run goes on to the next guild id with the store and the
\* dispatch log unchanged, so the tracked_users rows of the guild stay, and the
\* run takes up a guild (to fetch its users, or to call _announce_new_solves for
\* it) only when the bot is a member of it at that moment.
C22_DeadGuildSkipped ==
    [][/\ (/\ poll.pc = "guild"
           /\ poll.guild_ids # <<>>
           /\ Head(poll.guild_ids) \notin joined
           /\ poll' # poll) =>
              /\ poll' = [poll EXCEPT !.guild_ids = Tail(poll.guild_ids)]
              /\ poll'.guild = NoGuild
              /\ tracked_users' = tracked_users
              /\ solved_challenges' = solved_challenges
              /\ guild_first_bloods' = guild_first_bloods
              /\ guild_settings' = guild_settings
              /\ sent' = sent
              /\ marks' = marks
       /\ (poll.guild = NoGuild /\ poll'.guild # NoGuild) =>
              /\ poll.pc = "guild"
              /\ poll.guild_ids # <<>>
              /\ poll'.guild = Head(poll.guild_ids)
              /\ poll'.guild \in joined
       /\ (poll'.pc \in {"fetch", "announce"} /\ poll.pc \notin {"fetch", "announce"}) =>
              poll'.guild # NoGuild]_vars

\* a run without failure is at its end: alice's solve was recorded in guild 1, and
\* guild 2, which the bot has left and where alice is tracked too, has no row
C22_Witness ==
    /\ poll.pc = "guild"
    /\ poll.guild_ids = <<>>
    /\ ~poll.failed
    /\ 2 \notin joined
    /\ \E i \in 1..Len(tracked_users) :
          tracked_users[i] = [guild_id |-> 2, cryptohack_username |-> "alice"]
    /\ RowsOf(solved_challenges, 1, "alice") # <<>>
    /\ RowsOf(solved_challenges, 2, "alice") = <<>>
    /\ sent # <<>>

\* a tracked_users row of the guild whose name is the given one up to case
TrackedAs(t, guild_id, username) ==
    \E i \in 1..Len(t) : /\ t[i].guild_id = guild_id
                         /\ Lower(t[i].cryptohack_username) = Lower(username)

\* C23: tracked_users never holds two rows of one guild whose names are equal up
\* to case; on the table of any reachable state, add_user answers True exactly
\* when no such row existed, and then adds the one row, and answers False and
\* changes nothing otherwise; remove_user answers True exactly when such a row
\* existed, and leaves no such row, touching no other row.
C23_OneRowPerAccount ==
    /\ \A i, j \in 1..Len(tracked_users) :
          (/\ tracked_users[i].guild_id = tracked_users[j].guild_id
           /\ Lower(tracked_users[i].cryptohack_username)
                 = Lower(tracked_users[j].cryptohack_username)) => i = j
    /\ \A g \in Guilds, name \in Names :
          LET existed == TrackedAs(tracked_users, g, name)
              added == add_user(tracked_users, g, name)
              removed == remove_user(tracked_users, g, name)
              others == SelectSeq(tracked_users,
                                  LAMBDA r : ~(r.guild_id = g /\ Lower(r.cryptohack_username) = Lower(name)))
          IN  /\ added.ok <=> ~existed
              /\ TrackedAs(added.rows, g, name)
              /\ Len(added.rows) = Len(tracked_users) + (IF existed THEN 0 ELSE 1)
              /\ SubSeq(added.rows, 1, Len(tracked_users)) = tracked_users
              /\ removed.ok <=> existed
              /\ removed.rows = others

\* alice was untracked, Bob is tracked as "bob", and a second /adduser for Bob is
\* about to be answered "already tracked"
C23_Witness ==
    /\ ~TrackedAs(tracked_users, 1, "alice")
    /\ \E i \in 1..Len(tracked_users) :
          tracked_users[i] = [guild_id |-> 1, cryptohack_username |-> "bob"]
    /\ trk.pc = "add"
    /\ trk.guild = 1
    /\ trk.username = "Bob"
    /\ ~add_user(tracked_users, trk.guild, trk.username).ok

\* the channels of a guild that are called "cryptohack"
FallbackChannels(g) ==
    {ch \in liveChannels : ChannelGuild(ch) = g /\ ChannelName(ch) = "cryptohack"}

\* C24: _announce_new_solves picks its channel by precedence: the channel stored
\* by /setchannel when it still exists, otherwise the guild's #cryptohack channel
\* when there is one, otherwise the guild's system channel, and with none of them
\* it goes to mark the batch; the channel picked stays the same until the batch
\* is done, and every channel.send of the batch goes to it.
C24_TargetPrecedence ==
    [][/\ (poll.pc = "resolve" /\ poll' # poll) =>
              LET channel_id == poll.channel
                  g == poll.guild
              IN  /\ (channel_id # NoChannel /\ channel_id \in liveChannels) =>
                         poll'.channel = channel_id
                  /\ (~(channel_id # NoChannel /\ channel_id \in liveChannels)
                         /\ FallbackChannels(g) # {}) =>
                         poll'.channel \in FallbackChannels(g)
                  /\ (~(channel_id # NoChannel /\ channel_id \in liveChannels)
                         /\ FallbackChannels(g) = {}) =>
                         poll'.channel = system_channel[g]
                  /\ poll'.pc = IF poll'.channel = NoChannel THEN "markall" ELSE "prepare"
       /\ (poll.pc \in {"prepare", "send", "mark"} /\ poll' # poll) =>
              /\ poll.channel # NoChannel
              /\ poll'.pc \in {"prepare", "send", "mark"} => poll'.channel = poll.channel
       /\ (poll.pc = "send" /\ poll' # poll) =>
              /\ Len(sent') = Len(sent) + 1
              /\ sent'[Len(sent')].by = "poll"
              /\ sent'[Len(sent')].channel = poll.channel]_vars

\* /setchannel stored #general of guild 1, which was deleted afterwards: the batch
\* of guild 1 was sent to #cryptohack
C24_Witness ==
    /\ poll.pc = "mark"
    /\ poll.guild = 1
    /\ guild_settings[1] = 11
    /\ 11 \notin liveChannels
    /\ poll.channel = 13
    /\ sent # <<>>
    /\ sent[Len(sent)].channel = 13
    /\ sent[Len(sent)].outcome = "sent"

\* where the background task is while it is inside _announce_new_solves
DeliverPcs == {"announce", "channel", "resolve", "markall", "prepare", "send", "mark"}

\* C25: in a run of the background loop each guild id occurs once; for a guild
\* the bot is a member of, the users read at line 68 are taken one by one in
\* order, a user is left only after _check_user_solves has returned or raised for
\* it, _announce_new_solves is entered only when no user of the list is left, a
\* guild is left only from _announce_new_solves, and once left it is not among
\* the guild ids still to do: one call per guild and run, after all its users.
C25_DeliverOncePerGuild ==
    [][/\ \A i, j \in 1..Len(poll.guild_ids) :
              poll.guild_ids[i] = poll.guild_ids[j] => i = j
       /\ poll.guild # NoGuild => \A i \in 1..Len(poll.guild_ids) :
                                     poll.guild_ids[i] # poll.guild
       /\ (poll.guild = NoGuild /\ poll'.guild # NoGuild) =>
              /\ poll'.users = get_tracked_users(tracked_users, poll'.guild)
              /\ poll'.pc = IF poll'.users = <<>> THEN "announce" ELSE "fetch"
              /\ poll'.users # <<>> => poll'.username = Head(poll'.users)
       /\ (poll.guild # NoGuild /\ poll'.users # poll.users) =>
              /\ poll.pc = "sleep"
              /\ poll'.users = Tail(poll.users)
              /\ poll'.guild = poll.guild
       /\ (poll'.pc = "sleep" /\ poll.pc # "sleep") =>
              /\ poll.pc \in {"fetch", "existing", "record"}
              /\ poll.users # <<>>
              /\ poll.username = Head(poll.users)
              /\ poll'.users = poll.users
       /\ (poll'.pc = "fetch" /\ poll.pc = "sleep") =>
              poll'.username = Head(poll'.users)
       /\ (poll'.pc \in DeliverPcs /\ poll.pc \notin DeliverPcs) =>
              /\ poll'.pc = "announce"
              /\ poll'.guild # NoGuild
              /\ \/ poll.pc = "sleep" /\ Len(poll.users) = 1
                 \/ poll.pc = "guild" /\ poll'.users = <<>>
       /\ (poll.guild # NoGuild /\ poll'.guild # poll.guild) =>
              /\ poll.pc \in DeliverPcs
              /\ poll'.guild = NoGuild
              /\ poll'.pc = "guild"
              /\ poll'.guild_ids = poll.guild_ids]_vars

\* _announce_new_solves is about to start for guild 1 after both of its users
\* were taken: the step of alice failed and left no row, the step of bob recorded
\* his solve
C25_Witness ==
    /\ poll.pc = "announce"
    /\ poll.guild = 1
    /\ poll.failed
    /\ upstream["alice"] # <<>>
    /\ RowsOf(solved_challenges, 1, "alice") = <<>>
    /\ RowsOf(solved_challenges, 1, "bob") # <<>>
    /\ poll.guild_ids = <<2>>

\* one turn of the loop over the new challenges, for a process that goes from p to
\* q in this step: the claim comes first and keeps its answer in fb, the insert
\* follows for the same challenge and stores that answer, and the next turn is
\* for the next challenge
ClaimThenRecord(p, q) ==
    /\ (p.pc = "claim" /\ q # p) =>
           /\ q.pc = "record"
           /\ q.todo = p.todo
           /\ q.fb <=> guild_first_bloods' # guild_first_bloods
           /\ solved_challenges' = solved_challenges
           /\ \A i, j \in 1..Len(p.todo) : p.todo[i].name = p.todo[j].name => i = j
    /\ (q.pc = "record" /\ p.pc # "record") => p.pc = "claim"
    /\ (p.pc = "record" /\ q # p) =>
           /\ q.pc # "record"
           /\ guild_first_bloods' = guild_first_bloods
           /\ solved_challenges' # solved_challenges =>
                 /\ Len(solved_challenges') = Len(solved_challenges) + 1
                 /\ SubSeq(solved_challenges', 1, Len(solved_challenges)) = solved_challenges
                 /\ SolveKey(solved_challenges'[Len(solved_challenges')]) = Target(p)
                 /\ solved_challenges'[Len(solved_challenges')].first_blood = p.fb
    /\ (q.pc = "claim" /\ p.pc \in {"record", "mark"}) => q.todo = Tail(p.todo)

\* C26: in the background step, in /refresh and in the seeding of /adduser, each
\* new challenge gets one check_and_set_first_blood call, made before its
\* add_solved_challenge call, and the first_blood of the row that call inserts is
\* what the claim answered.
C26_ClaimBeforeInsert ==
    [][/\ ClaimThenRecord(poll, poll')
       /\ ClaimThenRecord(refr, refr')
       /\ ClaimThenRecord(trk, trk')]_vars

\* alice's solve was recorded by the background step with first blood; the seeding
\* of Bob claimed for the same challenge, was answered False and has inserted his
\* row without first blood
C26_Witness ==
    /\ trk.pc = "mark"
    /\ trk.created
    /\ \E i, j \in 1..Len(solved_challenges) :
          /\ solved_challenges[i].cryptohack_username = "alice"
          /\ solved_challenges[i].first_blood
          /\ creator[i] = "poll"
          /\ solved_challenges[j].cryptohack_username = "bob"
          /\ solved_challenges[j].challenge_name = solved_challenges[i].challenge_name
          /\ ~solved_challenges[j].first_blood
          /\ creator[j] = "track"

\* the solved_challenges rows of a guild for a challenge, whoever the user
SolversRecorded(t, g, name) ==
    SelectSeq(t, LAMBDA r : r.guild_id = g /\ r.challenge_name = name)

HolderThenLater(i, j) ==
    /\ i < j
    /\ solved_challenges[i].guild_id = solved_challenges[j].guild_id
    /\ solved_challenges[i].challenge_name = solved_challenges[j].challenge_name
    /\ solved_challenges[i].first_blood

\* in the list get_challenge_solvers answers now for the challenge of row i, the
\* user of row i comes before the user of row j
ListedBefore(i, j) ==
    LET solvers == get_challenge_solvers(solved_challenges, tracked_users,
                                         solved_challenges[i].guild_id,
                                         solved_challenges[i].challenge_name)
    IN  \E k, l \in 1..Len(solvers) :
            /\ k < l
            /\ solvers[k].cryptohack_username = solved_challenges[i].cryptohack_username
            /\ solvers[l].cryptohack_username = solved_challenges[j].cryptohack_username

\* C28: a row inserted for a challenge after a row of the same guild that carries
\* first blood has first_blood = FALSE; get_challenge_solvers lists the tracked
\* solvers by ascending solved_date, so it has the first-blood holder before the
\* later user when both are tracked and the holder's solved_date is the earlier.
C28_LaterSolverAfterHolder ==
    /\ \A i, j \in 1..Len(solved_challenges) :
          HolderThenLater(i, j) =>
              /\ ~solved_challenges[j].first_blood
              /\ (/\ SolversTracked(solved_challenges[i].guild_id,
                                    solved_challenges[i].challenge_name)
                  /\ solved_challenges[i].solved_date < solved_challenges[j].solved_date)
                    => ListedBefore(i, j)
    /\ \A g \in Guilds, name \in Challenges :
          LET solvers == get_challenge_solvers(solved_challenges, tracked_users, g, name)
          IN  /\ \A k, l \in 1..Len(solvers) :
                    k < l => solvers[k].solved_date <= solvers[l].solved_date
              /\ \A i \in 1..Len(solved_challenges) :
                    (/\ solved_challenges[i].guild_id = g
                     /\ solved_challenges[i].challenge_name = name
                     /\ TrackedAs(tracked_users, g, solved_challenges[i].cryptohack_username))
                    <=> \E k \in 1..Len(solvers) : solvers[k] = solved_challenges[i]

\* alice holds first blood with the earlier date, Bob's row came later without it,
\* and the list has alice before Bob
C28_Witness ==
    \E i, j \in 1..Len(solved_challenges) :
        /\ HolderThenLater(i, j)
        /\ solved_challenges[i].cryptohack_username = "alice"
        /\ solved_challenges[j].cryptohack_username = "bob"
        /\ ~solved_challenges[j].first_blood
        /\ solved_challenges[i].solved_date < solved_challenges[j].solved_date
        /\ SolversTracked(1, solved_challenges[i].challenge_name)
        /\ ListedBefore(i, j)

\* C28 as stated: the later row has first_blood = FALSE and get_challenge_solvers
\* lists the first-blood holder before the later user (checked where every
\* recorded solver of the challenge is still tracked).
C28_HolderListedFirst ==
    \A i, j \in 1..Len(solved_challenges) :
        (HolderThenLater(i, j) /\ SolversTracked(solved_challenges[i].guild_id,
                                                 solved_challenges[i].challenge_name)) =>
            /\ ~solved_challenges[j].first_blood
            /\ ListedBefore(i, j)

\* d is the snapshot without the entries whose name is in existing_solves, in the
\* order of the snapshot
IsDiff(d, existing_solves, snapshot) ==
    /\ \A k \in 1..Len(d) :
          /\ d[k].name \notin existing_solves
          /\ \E i \in 1..Len(snapshot) : snapshot[i] = d[k]
    /\ \A i \in 1..Len(snapshot) :
          snapshot[i].name \notin existing_solves => \E k \in 1..Len(d) : d[k] = snapshot[i]
    /\ Len(d) = Cardinality({i \in 1..Len(snapshot) : snapshot[i].name \notin existing_solves})
    /\ \A k, l \in 1..Len(d) : \A i, j \in 1..Len(snapshot) :
          (k < l /\ snapshot[i] = d[k] /\ snapshot[j] = d[l]) => i < j
    /\ existing_solves = {} => d = snapshot
    /\ snapshot = <<>> => d = <<>>

\* C29: the challenges the background step and /refresh go on to claim and record
\* are exactly the entries of the fetched snapshot whose name is not among the
\* names get_solved_challenges returned for (guild, user), in the order of the
\* snapshot: all of it when nothing is recorded, none when it is empty; and the
\* step that works them out changes no table.
C29_DiffIsExact ==
    [][/\ (poll.pc = "existing" /\ poll' # poll) =>
              /\ IsDiff(poll'.todo,
                        get_solved_challenges(solved_challenges, poll.guild, poll.username),
                        poll.snap)
              /\ poll'.pc = IF poll'.todo = <<>> THEN "sleep" ELSE "claim"
              /\ tracked_users' = tracked_users
              /\ solved_challenges' = solved_challenges
              /\ guild_first_bloods' = guild_first_bloods
              /\ guild_settings' = guild_settings
       /\ (refr.pc = "existing" /\ refr' # refr) =>
              /\ IsDiff(refr'.todo,
                        get_solved_challenges(solved_challenges, refr.guild, refr.username),
                        refr.snap)
              /\ refr'.pc = IF refr'.todo = <<>> THEN "sleep" ELSE "claim"
              /\ tracked_users' = tracked_users
              /\ solved_challenges' = solved_challenges
              /\ guild_first_bloods' = guild_first_bloods
              /\ guild_settings' = guild_settings]_vars

\* the snapshot of the background step has two challenges, the first of them is
\* recorded already, and the step goes on with the second one alone
C29_Witness ==
    /\ poll.pc = "claim"
    /\ Len(poll.snap) = 2
    /\ poll.todo = <<poll.snap[2]>>
    /\ poll.snap[1].name
          \in get_solved_challenges(solved_challenges, poll.guild, poll.username)

\* what the four tables hold for guild g, each in rowid order
GuildRows(tu, sc, fb, gs, g) ==
    <<SelectSeq(tu, LAMBDA r : r.guild_id = g),
      SelectSeq(sc, LAMBDA r : r.guild_id = g),
      SelectSeq(fb, LAMBDA r : r.guild_id = g),
      gs[g]>>

\* the first-blood answer a process gets at its claim depends on the
\* guild_first_bloods rows of its own guild only
ClaimOwnGuild(p, q) ==
    (p.pc = "claim" /\ q # p) =>
        (q.fb <=> ~\E i \in 1..Len(guild_first_bloods) :
                     /\ guild_first_bloods[i].guild_id = p.guild
                     /\ guild_first_bloods[i].challenge_name = Head(p.todo).name)

\* C30: a step that changes what the tables hold for a guild changes it for that
\* guild alone, and when it is a step of the background task, of /refresh or of
\* /adduser, that guild is the one the task or command is working on; a
\* first-blood claim is answered from the rows of its own guild, so one user can
\* hold first blood for one challenge in two guilds.
C30_OtherGuildsUntouched ==
    [][/\ \A g \in Guilds :
              GuildRows(tracked_users', solved_challenges', guild_first_bloods',
                        guild_settings', g)
                 # GuildRows(tracked_users, solved_challenges, guild_first_bloods,
                             guild_settings, g) =>
                 /\ \A h \in Guilds \ {g} :
                       GuildRows(tracked_users', solved_challenges', guild_first_bloods',
                                 guild_settings', h)
                          = GuildRows(tracked_users, solved_challenges, guild_first_bloods,
                                      guild_settings, h)
                 /\ poll' # poll => poll.guild = g
                 /\ refr' # refr => refr.guild = g
                 /\ trk' # trk => trk.guild = g
       /\ ClaimOwnGuild(poll, poll')
       /\ ClaimOwnGuild(refr, refr')
       /\ ClaimOwnGuild(trk, trk')]_vars

\* alice's solve of one challenge is recorded with first blood in guild 1 and in
\* guild 2, and each guild has its own guild_first_bloods row for it
C30_Witness ==
    \E i, j \in 1..Len(solved_challenges) : \E k, l \in 1..Len(guild_first_bloods) :
        /\ solved_challenges[i].guild_id = 1
        /\ solved_challenges[j].guild_id = 2
        /\ solved_challenges[i].cryptohack_username = "alice"
        /\ solved_challenges[j].cryptohack_username = "alice"
        /\ solved_challenges[i].challenge_name = solved_challenges[j].challenge_name
        /\ solved_challenges[i].first_blood
        /\ solved_challenges[j].first_blood
        /\ guild_first_bloods[k] = [guild_id |-> 1,
                                    challenge_name |-> solved_challenges[i].challenge_name,
                                    first_solver_username |-> "alice"]
        /\ guild_first_bloods[l] = [guild_id |-> 2,
                                    challenge_name |-> solved_challenges[i].challenge_name,
                                    first_solver_username |-> "alice"]
        /\ guild_settings[2] # NoChannel

\* C31: a step that removes a tracked_users row (/removeuser) removes that one row
\* and nothing else: solved_challenges with its first_blood and announced values,
\* guild_first_bloods and guild_settings are as before; and no step at all ever
\* deletes or changes a guild_first_bloods row, so a first blood whose holder was
\* untracked stays taken.
C31_UntrackKeepsRows ==
    [][/\ Len(tracked_users') < Len(tracked_users) =>
              /\ Len(tracked_users') = Len(tracked_users) - 1
              /\ \E i \in 1..Len(tracked_users) :
                    tracked_users' = SubSeq(tracked_users, 1, i - 1)
                                        \o SubSeq(tracked_users, i + 1, Len(tracked_users))
              /\ solved_challenges' = solved_challenges
              /\ guild_first_bloods' = guild_first_bloods
              /\ guild_settings' = guild_settings
       /\ Len(guild_first_bloods') >= Len(guild_first_bloods)
       /\ SubSeq(guild_first_bloods', 1, Len(guild_first_bloods)) = guild_first_bloods]_vars

\* alice was untracked after her solve was recorded with first blood and sent to
\* the channel /setchannel had stored: her row, her first blood and the stored
\* channel are still there
C31_Witness ==
    /\ ~TrackedAs(tracked_users, 1, "alice")
    /\ \E i \in 1..Len(solved_challenges) :
          /\ solved_challenges[i].guild_id = 1
          /\ solved_challenges[i].cryptohack_username = "alice"
          /\ solved_challenges[i].first_blood
          /\ solved_challenges[i].announced
          /\ \E k \in 1..Len(guild_first_bloods) :
                guild_first_bloods[k] =
                    [guild_id |-> 1,
                     challenge_name |-> solved_challenges[i].challenge_name,
                     first_solver_username |-> "alice"]
    /\ guild_settings[1] = 11

\* C32: with the background loop started over and over and the bot a member of
\* the guild, every solved_challenges row that is unannounced is announced at
\* some later time, also when every user of the guild was untracked meanwhile.
C32_UnannouncedEventuallyAnnounced ==
    \A g \in Guilds : \A a \in Accounts : \A c \in Challenges :
        (Recorded(<<g, Lower(a), c>>) /\ ~AnnouncedIn(solved_challenges, <<g, Lower(a), c>>))
            ~> AnnouncedIn(solved_challenges, <<g, Lower(a), c>>)

\* C33: with the background loop, /refresh and /adduser all at rest, every
\* guild_first_bloods row whose first solver has a solved_challenges row for that
\* (guild, challenge) finds first_blood = TRUE on that row (checked for the rows
\* that the seeding of /adduser neither inserted nor went over, which leaves the
\* background step and /refresh as the steps that worked on them).
C33_WonClaimIsRecorded ==
    (poll.pc = "idle" /\ refr.pc = "idle" /\ trk.pc = "idle") =>
        \A k \in 1..Len(guild_first_bloods) : \A i \in 1..Len(solved_challenges) :
            (/\ solved_challenges[i].guild_id = guild_first_bloods[k].guild_id
             /\ solved_challenges[i].challenge_name = guild_first_bloods[k].challenge_name
             /\ solved_challenges[i].cryptohack_username
                   = guild_first_bloods[k].first_solver_username
             /\ creator[i] # "track"
             /\ <<solved_challenges[i].guild_id, solved_challenges[i].cryptohack_username,
                  solved_challenges[i].challenge_name, "seed">> \notin marks) =>
                solved_challenges[i].first_blood

\* C34: get_challenge_solvers(guild, challenge) has exactly one entry for every
\* solved_challenges row of that (guild, challenge), also when the account of a
\* row was untracked after the row was recorded, and every channel.send made by
\* _announce_new_solves carries a server rank of at least 1.
C34_SolversCoverRecordedRows ==
    /\ \A g \in Guilds : \A c \in Challenges :
          Len(get_challenge_solvers(solved_challenges, tracked_users, g, c))
              = Len(SolversRecorded(solved_challenges, g, c))
    /\ \A i \in 1..Len(sent) : sent[i].by = "poll" => sent[i].rank >= 1

====
